---- MODULE Spec2Model ----
(***************************************************************************)
(* Verification model of the asynchronous delivery core of wormbks/dry:    *)
(*   - AsyncWriter (src/async/wrier.go): bounded queue + consumer task     *)
(*   - messageBus  (src/async/bus.go):   topic registry + per-handler task *)
(* Each subsystem has its own specification; the other subsystem's         *)
(* variables stay at their initial values under it.                        *)
(***************************************************************************)
EXTENDS Integers, Sequences, FiniteSets, TLC

(***************************************************************************)
(* Bounds of the model                                                     *)
(***************************************************************************)
\* capacity of AsyncWriter.queue and AsyncWriter.errChan (var QueueSize)
QueueSize == 1
\* Write calls issued by all producers together
MaxWrites == 3
\* sequential calls of AsyncWriter.Close
MaxCloses == 2

\* the goroutines calling AsyncWriter.Write
Producers == {"p1", "p2"}
\* every Write makes at most one new buffer; 0 stands for "no buffer"
BufIds == 1..MaxWrites

\* error values
Nil == <<"nil">>
ErrClosed == <<"ErrClosed">>
ErrQueueFull == <<"ErrQueueFull">>
\* the error a sink returns for the write of content c
SinkErr(c) == <<"sinkError", c>>

\* the bytes of the k-th Write of producer p (one tagged byte)
Data(p, k) == << <<p, k>> >>

\* capacity of each msgHandler.queue (messageBus.handlerQueueSize)
HandlerQueueSize == 1
\* Subscribe calls that make a handler
MaxSubscribes == 3
\* Publish calls issued by all publishers together
MaxPublishes == 2
\* Unsubscribe and Close calls
MaxRemovals == 1

\* the goroutines calling messageBus.Publish
Publishers == {"q1", "q2"}
Topics == {"a", "b"}
\* callback functions; Values adds a value that is not a function (an
\* integer); BusNilSpec also passes the nil interface value
Funcs == {"f", "g"}
Values == Funcs \cup {"int"}
HandlerIds == 1..MaxSubscribes
ErrNoHandlerFound == <<"ErrNoHandlerFound">>
ErrTopicNotFound == <<"ErrTopicNotFound">>
ErrNotFunc == <<"is not a reflect.Func">>
\* a run-time panic leaving a bus method
Panic(why) == <<"panic", why>>

\* ---- eventBusImpl ----
\* capacity of every subscriber's EventChannel (made by the caller)
EventChanSize == 1
\* eventBusImpl.Publish calls issued by all publishers together
MaxEventPublishes == 2
\* eventBusImpl.Subscribe calls
MaxEventSubscribes == 3
\* eventBusImpl.Unsubscribe calls
MaxEventUnsubscribes == 2

\* the channels callers subscribe with
Channels == {"c1", "c2"}
\* the error Publish makes when a subscriber's channel is full
ErrEventQueueFull(topic) == <<"event bus queue is full for topic", topic>>
\* CityHash64 of the topic followed by the decimal number: equal exactly for
\* equal (topic, number)
generateUInt64ID(str, num) == <<str, num>>
\* the subscription IDs callers pass to Unsubscribe
SubscriptionIDs ==
    {generateUInt64ID(t, n) : t \in Topics, n \in 1..MaxEventSubscribes}

\* ---- TopicMatcher ----
\* AddFilter, RemoveFilter and Match calls
MaxMatcherCalls == 4
\* strings are sequences of characters; the filters and the topics passed
FilterStrings == { <<"s", "/", "+">>, <<"s", "/", "1">>, <<"#">> }
TopicStrings == { <<"s", "/", "1">>, <<"s", "/", "2">>, <<"d">> }

\* ---- InitTLSConfig ----
\* InitTLSConfig calls made by all callers together
MaxTLSCalls == 3
\* the goroutines calling InitTLSConfig
TLSCallers == {"t1", "t2"}
\* the arguments: paths that load, and a path that does not
CAPaths == {"ca1", "ca2", "badCA"}
CertPaths == {"cert1", "badCert"}
KeyPaths == {"key1", "badKey"}
\* a nil pointer
NilPtr == <<"nil pointer">>

\* ---- DirectorySizer ----
\* files created in the directory
MaxFiles == 3
\* modification times run from 1 to MaxModTime, sizes from 1 to MaxFileSize
MaxModTime == 2
MaxFileSize == 2
\* the largest MaxSizeBytes given to NewDirectorySizer
MaxDirBytes == 3
\* RemoveElderFiles calls
MaxSizerCalls == 2
FileNames == 1..MaxFiles

\* ---- StringReplacer ----
\* inputs are the strings of at most MaxStrLen characters of StrAlphabet
MaxStrLen == 2
\* Replace and ReverseReplace calls
MaxReplacerCalls == 3
StrAlphabet == {"a", "b", "c", "x", "y"}
\* the replacePairs given to NewStringReplacer: "ab" -> "x", "c" -> "y"
ReplacePairs == (<<"a", "b">> :> <<"x">>) @@ (<<"c">> :> <<"y">>)

\* ---- LoopingIntRangeIterator ----
\* Go's int is a 64-bit two's complement integer; the model keeps IntBits
\* bits of it
IntBits == 4
\* Next and Reset calls
MaxIterCalls == 6
MinInt == -(2 ^ (IntBits - 1))
MaxInt == 2 ^ (IntBits - 1) - 1
GoInt == MinInt..MaxInt

VARIABLES
    \* ---- AsyncWriter ----
    isClosed,       \* AsyncWriter.isClosed
    ctxDone,        \* AsyncWriter.ctx is cancelled (own cancelFunc or parent)
    queue,          \* AsyncWriter.queue: FIFO of buffers
    errChan,        \* AsyncWriter.errChan: FIFO of errors
    wg,             \* the WaitGroup counter
    wpc,            \* position of the writer() goroutine
    inflight,       \* buffer the writer() goroutine has received
    pool,           \* _asyncBufferPool: buffers available to Get
    bufBytes,       \* contents of every bytes.Buffer
    nextBuf,        \* number of buffers made by the pool's New
    ppc,            \* position of each producer inside Write
    pbuf,           \* buffer a producer holds (bb)
    pcount,         \* Write calls started by each producer
    pret,           \* value returned by each producer's last Write
    sink,           \* byte slices passed to the sink's Write, in order
    sinkCloseCalls, \* calls of the sink's Close
    sinkErrs,       \* errors the sink's Write returned, in order
    cpc,            \* position of the closing goroutine inside Close
    closeRet,       \* values returned by the Close calls, in order
    \* ---- history of the AsyncWriter run ----
    accepted,       \* data of the Writes that returned (len, nil), in that order
    acceptedOpen,   \* data accepted while the closed flag was not set
    pacc,           \* Len(accepted) when the producer's last Write returned
    pdone,          \* writer() had exited when the producer's Write was called
    closeSnap,      \* per Close call: Len(accepted) when it was called
    nWrites,        \* Write calls started so far
    \* ---- messageBus ----
    handlers,       \* messageBus.handlers: topics present -> list of handlers
    callback,       \* msgHandler.callback of every handler made so far
    hqueue,         \* msgHandler.queue: FIFO of argument lists
    hclosed,        \* msgHandler.queue has been closed
    hpc,            \* position of each handler's consumer goroutine
    nextH,          \* number of msgHandler objects made by Subscribe
    rlocked,        \* publishers holding messageBus.mtx for reading
    wlockWait,      \* a caller is inside mtx.Lock(): later RLock calls wait
    bpc,            \* position of each publisher inside Publish
    bcall,          \* topic, argument and loop index of the running Publish
    mpc,            \* position of the goroutine that changes the registry
    mcall,          \* the running Subscribe / Unsubscribe / Close call
    mret,           \* the last such call that returned, and its result
    crashed,        \* an unrecovered panic has ended the process
    \* ---- history of the messageBus run ----
    invoked,        \* per handler: argument lists its callback was called with
    published,      \* finished Publish calls: argument, topic, handlers, result,
                    \* and the value of unsubscribed when the call was made
    nPub,           \* Publish calls started so far
    nRem,           \* Unsubscribe and Close calls started so far
    unsubscribed,   \* <<topic, handler>> an Unsubscribe that returned nil had to remove
    calledAfter,    \* per Publish call (by its argument), the arguments of the calls
                    \* that had returned when it was made
    \* ---- eventBusImpl ----
    subscribers,    \* eventBusImpl.subscribers: topic -> list of [subscriptionID, ch]
    echan,          \* per EventChannel: the events buffered in it
    epc,            \* per publisher: "idle", or "send" inside the loop of Publish
    ecall,          \* per publisher: topic, data, loop index, and so far: which
                    \* subscribers were sent the event, the err to return
    subscriptionID, \* the ID the last Subscribe returned
    \* ---- history of the eventBusImpl run ----
    epublished,     \* finished Publish calls: topic, data, the subscribers, which
                    \* of them were sent the event, result
    nEPub,          \* Publish calls started so far
    nESub,          \* Subscribe calls made so far
    nEUnsub,        \* Unsubscribe calls made so far
    \* ---- GzipFileWriter ----
    gzipIt,         \* NewGzipFileWriter's gzipIt: the sink is the gzip writer
    gpc,            \* position inside GzipFileWriter.Close after writer.Close
    gzFlushed,      \* number of sink writes the gzip writer has put into the file
    gzClosed,       \* gzipWriter.Close has succeeded
    fileClosed,     \* file.Close has been called
    gzCloseRet,     \* values returned by the GzipFileWriter.Close calls, in order
    \* ---- TopicMatcher ----
    tmFilters,      \* TopicMatcher.filters
    tmCache,        \* TopicMatcher.cache: topic -> remembered answer
    tmRet,          \* the last call and, for Match, its topic and result
    tmCalls,        \* calls made so far
    \* ---- InitTLSConfig ----
    onceDone,       \* sync.Once: the function passed to Do has returned
    onceBusy,       \* the caller running the function inside once.Do, or "none"
    sharedRoot,     \* sharedRoot
    sharedCert,     \* sharedCert
    sharedTLS,      \* sharedTLS
    tpc,            \* position of each caller inside InitTLSConfig
    tcall,          \* per caller: the arguments and errInit of the running call
    tlsRet,         \* the InitTLSConfig calls that returned: number, arguments, results
    initRuns,       \* how many times the function passed to once.Do was run
    nTLS,           \* InitTLSConfig calls started so far
    \* ---- directorySizerImpl ----
    dirFiles,       \* the files of the directory: name -> [modTime, size]
    maxSizeBytes,   \* directorySizerImpl.maxSizeBytes, 0 before NewDirectorySizer
    dsRemoved,      \* the files the last RemoveElderFiles call removed
    dsCalls,        \* RemoveElderFiles calls made so far
    \* ---- StringReplacer ----
    cache,          \* StringReplacer.cache: input -> modified string
    srCall,         \* the last call: <<method, input>>
    srRet,          \* the string the last call returned
    nReplace,       \* calls made so far
    \* ---- LoopingIntRangeIterator ----
    Start,          \* LoopingIntRangeIterator.Start
    End,            \* LoopingIntRangeIterator.End
    Current,        \* LoopingIntRangeIterator.Current
    itCall,         \* the last call on the iterator: "none", "New", "Next" or "Reset"
    itRet,          \* the value the last Next returned
    nIter           \* Next and Reset calls made so far

wvars == <<isClosed, ctxDone, queue, errChan, wg, wpc, inflight, pool, bufBytes,
           nextBuf, ppc, pbuf, pcount, pret, sink, sinkCloseCalls, sinkErrs, cpc,
           closeRet, accepted, acceptedOpen, pacc, pdone, closeSnap, nWrites>>

bvars == <<handlers, callback, hqueue, hclosed, hpc, nextH, rlocked,
           wlockWait, bpc, bcall, mpc, mcall, mret, crashed, invoked,
           published, nPub, nRem, unsubscribed, calledAfter>>

evars == <<subscribers, echan, epc, ecall, subscriptionID, epublished,
           nEPub, nESub, nEUnsub>>

gvars == <<gzipIt, gpc, gzFlushed, gzClosed, fileClosed, gzCloseRet>>

tvars == <<tmFilters, tmCache, tmRet, tmCalls>>

svars == <<onceDone, onceBusy, sharedRoot, sharedCert, sharedTLS, tpc, tcall,
           tlsRet, initRuns, nTLS>>

dvars == <<dirFiles, maxSizeBytes, dsRemoved, dsCalls>>

rvars == <<cache, srCall, srRet, nReplace>>

lvars == <<Start, End, Current, itCall, itRet, nIter>>

\* the variables of the components built around the writer and the buses
xvars == <<gvars, tvars, svars, dvars, rvars, lvars>>

\* what the actions of one of these components leave unchanged
notG == <<wvars, bvars, evars, tvars, svars, dvars, rvars, lvars>>
notT == <<wvars, bvars, evars, gvars, svars, dvars, rvars, lvars>>
notS == <<wvars, bvars, evars, gvars, tvars, dvars, rvars, lvars>>
notD == <<wvars, bvars, evars, gvars, tvars, svars, rvars, lvars>>
notR == <<wvars, bvars, evars, gvars, tvars, svars, dvars, lvars>>
notL == <<wvars, bvars, evars, gvars, tvars, svars, dvars, rvars>>

vars == <<wvars, bvars, evars, xvars>>

\* a publisher outside eventBusImpl.Publish
NoEventPublish == [topic |-> "none", data |-> 0, idx |-> 0, sent |-> <<>>, err |-> Nil]

Range(s) == {s[i] : i \in 1..Len(s)}

(***************************************************************************)
(* AsyncWriter                                                             *)
(***************************************************************************)
\* state after NewAsyncWriter: queue and errChan empty, isClosed false,
\* start() has done wg.Add(1) and launched writer()
WInit ==
    /\ isClosed = FALSE
    /\ ctxDone = FALSE
    /\ queue = <<>>
    /\ errChan = <<>>
    /\ wg = 1
    /\ wpc = "select"
    /\ inflight = 0
    /\ pool = {}
    /\ bufBytes = [b \in BufIds |-> <<>>]
    /\ nextBuf = 0
    /\ ppc = [p \in Producers |-> "idle"]
    /\ pbuf = [p \in Producers |-> 0]
    /\ pcount = [p \in Producers |-> 0]
    /\ pret = [p \in Producers |-> <<>>]
    /\ sink = <<>>
    /\ sinkCloseCalls = 0
    /\ sinkErrs = <<>>
    /\ cpc = "idle"
    /\ closeRet = <<>>
    /\ accepted = <<>>
    /\ acceptedOpen = {}
    /\ pacc = [p \in Producers |-> 0]
    /\ pdone = [p \in Producers |-> FALSE]
    /\ closeSnap = <<>>
    /\ nWrites = 0

\* sendIfError: non-blocking push of a non-nil error onto errChan
sendIfError(err, ec) ==
    IF err = Nil THEN ec
    ELSE IF Len(ec) < QueueSize THEN Append(ec, err)
    ELSE ec

\* Write without the test of the closed flag
WriteBegin_NoClosedTest(p) ==
    /\ ppc[p] = "idle"
    /\ nWrites < MaxWrites
    /\ nWrites' = nWrites + 1
    /\ pcount' = [pcount EXCEPT ![p] = @ + 1]
    /\ pdone' = [pdone EXCEPT ![p] = (wpc = "done")]
    /\ ppc' = [ppc EXCEPT ![p] = "errChan"]
    /\ pret' = [pret EXCEPT ![p] = <<>>]
    /\ UNCHANGED <<isClosed, ctxDone, queue, errChan, wg, wpc, inflight, pool,
                   bufBytes, nextBuf, pbuf, sink, sinkCloseCalls, sinkErrs, cpc, closeRet,
                   accepted, acceptedOpen, pacc, closeSnap>>
    /\ UNCHANGED <<bvars, evars, xvars>>

\* Write, line 72: load the closed flag; closed -> return (0, ErrClosed)
WriteBegin(p) ==
    /\ ppc[p] = "idle"
    /\ nWrites < MaxWrites
    /\ nWrites' = nWrites + 1
    /\ pcount' = [pcount EXCEPT ![p] = @ + 1]
    /\ pdone' = [pdone EXCEPT ![p] = (wpc = "done")]
    /\ IF isClosed
         THEN /\ pret' = [pret EXCEPT ![p] = <<0, ErrClosed>>]
              /\ pacc' = [pacc EXCEPT ![p] = Len(accepted)]
              /\ ppc' = ppc
         ELSE /\ ppc' = [ppc EXCEPT ![p] = "errChan"]
              /\ pret' = [pret EXCEPT ![p] = <<>>]
              /\ pacc' = pacc
    /\ UNCHANGED <<isClosed, ctxDone, queue, errChan, wg, wpc, inflight, pool,
                   bufBytes, nextBuf, pbuf, sink, sinkCloseCalls, sinkErrs, cpc, closeRet,
                   accepted, acceptedOpen, closeSnap>>
    /\ UNCHANGED <<bvars, evars, xvars>>

\* Write that takes the pending error off errChan and carries on
WriteErrChan_Ignored(p) ==
    /\ ppc[p] = "errChan"
    /\ errChan' = IF errChan # <<>> THEN Tail(errChan) ELSE errChan
    /\ ppc' = [ppc EXCEPT ![p] = "getBuffer"]
    /\ UNCHANGED <<isClosed, ctxDone, queue, wg, wpc, inflight, pool, bufBytes,
                   nextBuf, pbuf, pcount, pret, sink, sinkCloseCalls, sinkErrs, cpc,
                   closeRet, accepted, acceptedOpen, pacc, pdone, closeSnap, nWrites>>
    /\ UNCHANGED <<bvars, evars, xvars>>

\* Write that returns the pending error and leaves it in the slot
WriteErrChan_Peek(p) ==
    /\ ppc[p] = "errChan"
    /\ IF errChan # <<>>
         THEN /\ pret' = [pret EXCEPT ![p] = <<0, Head(errChan)>>]
              /\ pacc' = [pacc EXCEPT ![p] = Len(accepted)]
              /\ ppc' = [ppc EXCEPT ![p] = "idle"]
              /\ UNCHANGED errChan
         ELSE /\ ppc' = [ppc EXCEPT ![p] = "getBuffer"]
              /\ UNCHANGED <<pret, errChan, pacc>>
    /\ UNCHANGED <<isClosed, ctxDone, queue, wg, wpc, inflight, pool, bufBytes,
                   nextBuf, pbuf, pcount, sink, sinkCloseCalls, sinkErrs, cpc, closeRet,
                   accepted, acceptedOpen, pdone, closeSnap, nWrites>>
    /\ UNCHANGED <<bvars, evars, xvars>>

\* Write, lines 73-82: non-blocking receive from errChan; an error -> return it
WriteErrChan(p) ==
    /\ ppc[p] = "errChan"
    /\ IF errChan # <<>>
         THEN /\ pret' = [pret EXCEPT ![p] = <<0, Head(errChan)>>]
              /\ pacc' = [pacc EXCEPT ![p] = Len(accepted)]
              /\ errChan' = Tail(errChan)
              /\ ppc' = [ppc EXCEPT ![p] = "idle"]
         ELSE /\ ppc' = [ppc EXCEPT ![p] = "getBuffer"]
              /\ UNCHANGED <<pret, errChan, pacc>>
    /\ UNCHANGED <<isClosed, ctxDone, queue, wg, wpc, inflight, pool, bufBytes,
                   nextBuf, pbuf, pcount, sink, sinkCloseCalls, sinkErrs, cpc, closeRet,
                   accepted, acceptedOpen, pdone, closeSnap, nWrites>>
    /\ UNCHANGED <<bvars, evars, xvars>>

\* Write that does not Reset the buffer it got from the pool
WriteGetBuffer_NoReset(p) ==
    /\ ppc[p] = "getBuffer"
    /\ \/ \E b \in pool :
            /\ pool' = pool \ {b}
            /\ pbuf' = [pbuf EXCEPT ![p] = b]
            /\ bufBytes' = [bufBytes EXCEPT ![b] = @ \o Data(p, pcount[p])]
            /\ UNCHANGED nextBuf
       \/ /\ nextBuf' = nextBuf + 1
          /\ pbuf' = [pbuf EXCEPT ![p] = nextBuf + 1]
          /\ bufBytes' = [bufBytes EXCEPT ![nextBuf + 1] = Data(p, pcount[p])]
          /\ UNCHANGED pool
    /\ ppc' = [ppc EXCEPT ![p] = "enqueue"]
    /\ UNCHANGED <<isClosed, ctxDone, queue, errChan, wg, wpc, inflight, pcount,
                   pret, sink, sinkCloseCalls, sinkErrs, cpc, closeRet, accepted, acceptedOpen, pacc,
                   pdone, closeSnap, nWrites>>
    /\ UNCHANGED <<bvars, evars, xvars>>

\* Write, lines 84-86: Get a buffer (a pooled one, or a new one), Reset it,
\* copy the data into it
WriteGetBuffer(p) ==
    /\ ppc[p] = "getBuffer"
    /\ \/ \E b \in pool :
            /\ pool' = pool \ {b}
            /\ pbuf' = [pbuf EXCEPT ![p] = b]
            /\ bufBytes' = [bufBytes EXCEPT ![b] = Data(p, pcount[p])]
            /\ UNCHANGED nextBuf
       \/ /\ nextBuf' = nextBuf + 1
          /\ pbuf' = [pbuf EXCEPT ![p] = nextBuf + 1]
          /\ bufBytes' = [bufBytes EXCEPT ![nextBuf + 1] = Data(p, pcount[p])]
          /\ UNCHANGED pool
    /\ ppc' = [ppc EXCEPT ![p] = "enqueue"]
    /\ UNCHANGED <<isClosed, ctxDone, queue, errChan, wg, wpc, inflight, pcount,
                   pret, sink, sinkCloseCalls, sinkErrs, cpc, closeRet, accepted, acceptedOpen, pacc,
                   pdone, closeSnap, nWrites>>
    /\ UNCHANGED <<bvars, evars, xvars>>

\* Write whose send on queue blocks while the queue is full
WriteEnqueue_Blocking(p) ==
    /\ ppc[p] = "enqueue"
    /\ Len(queue) < QueueSize
    /\ queue' = Append(queue, pbuf[p])
    /\ pret' = [pret EXCEPT ![p] = <<Len(bufBytes[pbuf[p]]), Nil>>]
    /\ accepted' = Append(accepted, Data(p, pcount[p]))
    /\ acceptedOpen' = IF isClosed THEN acceptedOpen
                       ELSE acceptedOpen \cup {Data(p, pcount[p])}
    /\ pacc' = [pacc EXCEPT ![p] = Len(accepted) + 1]
    /\ pbuf' = [pbuf EXCEPT ![p] = 0]
    /\ ppc' = [ppc EXCEPT ![p] = "idle"]
    /\ UNCHANGED <<isClosed, ctxDone, errChan, wg, wpc, inflight, pool, bufBytes,
                   nextBuf, pcount, sink, sinkCloseCalls, sinkErrs, cpc, closeRet,
                   pdone, closeSnap, nWrites>>
    /\ UNCHANGED <<bvars, evars, xvars>>

\* Write, lines 87-93: non-blocking send on queue
WriteEnqueue(p) ==
    /\ ppc[p] = "enqueue"
    /\ IF Len(queue) < QueueSize
         THEN /\ queue' = Append(queue, pbuf[p])
              /\ pret' = [pret EXCEPT ![p] = <<Len(bufBytes[pbuf[p]]), Nil>>]
              /\ accepted' = Append(accepted, Data(p, pcount[p]))
              /\ acceptedOpen' = IF isClosed THEN acceptedOpen
                                 ELSE acceptedOpen \cup {Data(p, pcount[p])}
              /\ pacc' = [pacc EXCEPT ![p] = Len(accepted) + 1]
         ELSE /\ pret' = [pret EXCEPT ![p] = <<0, ErrQueueFull>>]
              /\ pacc' = [pacc EXCEPT ![p] = Len(accepted)]
              /\ UNCHANGED <<queue, accepted, acceptedOpen>>
    /\ pbuf' = [pbuf EXCEPT ![p] = 0]
    /\ ppc' = [ppc EXCEPT ![p] = "idle"]
    /\ UNCHANGED <<isClosed, ctxDone, errChan, wg, wpc, inflight, pool, bufBytes,
                   nextBuf, pcount, sink, sinkCloseCalls, sinkErrs, cpc, closeRet,
                   pdone, closeSnap, nWrites>>
    /\ UNCHANGED <<bvars, evars, xvars>>

Write(p) == WriteBegin(p) \/ WriteErrChan(p) \/ WriteGetBuffer(p) \/ WriteEnqueue(p)

\* writer(), line 106: receive a buffer from queue
writerDequeue ==
    /\ wpc = "select"
    /\ queue # <<>>
    /\ inflight' = Head(queue)
    /\ queue' = Tail(queue)
    /\ wpc' = "write"
    /\ UNCHANGED <<isClosed, ctxDone, errChan, wg, pool, bufBytes, nextBuf, ppc,
                   pbuf, pcount, pret, sink, sinkCloseCalls, sinkErrs, cpc, closeRet,
                   accepted, acceptedOpen, pacc, pdone, closeSnap, nWrites>>
    /\ UNCHANGED <<bvars, evars, xvars>>

\* the sink write of the received buffer (the sink returns nil or an error),
\* sendIfError, and Put: writer() lines 107-109, flushQueue lines 163-165
SinkWrite(next) ==
    /\ sink' = Append(sink, bufBytes[inflight])
    /\ \E err \in {Nil, SinkErr(bufBytes[inflight])} :
          /\ errChan' = sendIfError(err, errChan)
          /\ sinkErrs' = IF err = Nil THEN sinkErrs ELSE Append(sinkErrs, err)
    /\ pool' = pool \cup {inflight}
    /\ inflight' = 0
    /\ wpc' = next
    /\ UNCHANGED <<isClosed, ctxDone, queue, wg, bufBytes, nextBuf, ppc, pbuf,
                   pcount, pret, sinkCloseCalls, cpc, closeRet, accepted, acceptedOpen, pacc,
                   pdone, closeSnap, nWrites>>
    /\ UNCHANGED <<bvars, evars, xvars>>

\* writer(), lines 107-109
writerWrite ==
    /\ wpc = "write"
    /\ SinkWrite("select")

\* writer(), lines 110-112: the context is done
writerCtxDone ==
    /\ wpc = "select"
    /\ ctxDone
    /\ wpc' = "onClose"
    /\ UNCHANGED <<isClosed, ctxDone, queue, errChan, wg, inflight, pool,
                   bufBytes, nextBuf, ppc, pbuf, pcount, pret, sink,
                   sinkCloseCalls, sinkErrs, cpc, closeRet, accepted, acceptedOpen, pacc, pdone,
                   closeSnap, nWrites>>
    /\ UNCHANGED <<bvars, evars, xvars>>

\* writer() returning without wg.Done()
writerReturn_NoDone ==
    /\ wpc' = "done"
    /\ wg' = wg

\* writer() returns (line 113): the deferred wg.Done() of line 103
writerReturn ==
    /\ wpc' = "done"
    /\ wg' = wg - 1

\* onClose, lines 144-148: already closed -> return ErrClosed, else set the
\* flag and flush; the sink's Close is not called (lines 150-152 are comments)
onClose ==
    /\ wpc = "onClose"
    /\ IF isClosed
         THEN /\ writerReturn
              /\ UNCHANGED isClosed
         ELSE /\ isClosed' = TRUE
              /\ wpc' = "flushQueue"
              /\ UNCHANGED wg
    /\ UNCHANGED <<ctxDone, queue, errChan, inflight, pool, bufBytes, nextBuf,
                   ppc, pbuf, pcount, pret, sink, sinkCloseCalls, sinkErrs, cpc, closeRet,
                   accepted, acceptedOpen, pacc, pdone, closeSnap, nWrites>>
    /\ UNCHANGED <<bvars, evars, xvars>>

\* flushQueue that returns without receiving from the queue
flushQueueSelect_NoDrain ==
    /\ wpc = "flushQueue"
    /\ writerReturn
    /\ UNCHANGED <<inflight, queue>>
    /\ UNCHANGED <<isClosed, ctxDone, errChan, pool, bufBytes, nextBuf, ppc,
                   pbuf, pcount, pret, sink, sinkCloseCalls, sinkErrs, cpc, closeRet,
                   accepted, acceptedOpen, pacc, pdone, closeSnap, nWrites>>
    /\ UNCHANGED <<bvars, evars, xvars>>

\* flushQueue, lines 160-168: receive the next buffer, or return when the
\* queue is empty (onClose and writer() then return)
flushQueueSelect ==
    /\ wpc = "flushQueue"
    /\ IF queue # <<>>
         THEN /\ inflight' = Head(queue)
              /\ queue' = Tail(queue)
              /\ wpc' = "flushWrite"
              /\ UNCHANGED wg
         ELSE /\ writerReturn
              /\ UNCHANGED <<inflight, queue>>
    /\ UNCHANGED <<isClosed, ctxDone, errChan, pool, bufBytes, nextBuf, ppc,
                   pbuf, pcount, pret, sink, sinkCloseCalls, sinkErrs, cpc, closeRet,
                   accepted, acceptedOpen, pacc, pdone, closeSnap, nWrites>>
    /\ UNCHANGED <<bvars, evars, xvars>>

\* flushQueue, lines 163-165
flushQueueWrite ==
    /\ wpc = "flushWrite"
    /\ SinkWrite("flushQueue")

writer == writerDequeue \/ writerWrite \/ writerCtxDone \/ onClose
            \/ flushQueueSelect \/ flushQueueWrite

\* Close, line 137: cancelFunc()
CloseCancel ==
    /\ cpc = "idle"
    /\ Len(closeSnap) < MaxCloses
    /\ ctxDone' = TRUE
    /\ cpc' = "wait"
    /\ closeSnap' = Append(closeSnap, Len(accepted))
    /\ UNCHANGED <<isClosed, queue, errChan, wg, wpc, inflight, pool, bufBytes,
                   nextBuf, ppc, pbuf, pcount, pret, sink, sinkCloseCalls, sinkErrs,
                   closeRet, accepted, acceptedOpen, pacc, pdone, nWrites>>
    /\ UNCHANGED <<bvars, evars, xvars>>

\* Close, lines 138-139: wg.Wait() returns when the counter is zero; return nil
CloseWait ==
    /\ cpc = "wait"
    /\ wg = 0
    /\ closeRet' = Append(closeRet, Nil)
    /\ cpc' = "idle"
    /\ UNCHANGED <<isClosed, ctxDone, queue, errChan, wg, wpc, inflight, pool,
                   bufBytes, nextBuf, ppc, pbuf, pcount, pret, sink,
                   sinkCloseCalls, sinkErrs, closeSnap, accepted, acceptedOpen, pacc, pdone, nWrites>>
    /\ UNCHANGED <<bvars, evars, xvars>>

Close == CloseCancel \/ CloseWait

\* the owner of the context given to NewAsyncWriter cancels it
ParentCancel ==
    /\ ~ctxDone
    /\ ctxDone' = TRUE
    /\ UNCHANGED <<isClosed, queue, errChan, wg, wpc, inflight, pool, bufBytes,
                   nextBuf, ppc, pbuf, pcount, pret, sink, sinkCloseCalls, sinkErrs, cpc,
                   closeRet, accepted, acceptedOpen, pacc, pdone, closeSnap, nWrites>>
    /\ UNCHANGED <<bvars, evars, xvars>>

\* ---- what the history says ----
\* contents of the buffers accepted and not yet passed to the sink
Pending == (IF inflight = 0 THEN <<>> ELSE <<bufBytes[inflight]>>)
             \o [i \in 1..Len(queue) |-> bufBytes[queue[i]]]

(***************************************************************************)
(* messageBus                                                              *)
(***************************************************************************)
\* the call records of a goroutine that is outside the bus methods
NoPublish == [topic |-> "none", args |-> <<>>, idx |-> 0, barred |-> {}]
NoCall == [op |-> "none", topic |-> "none", fn |-> "none", h |-> 0]

\* state after NewMessageBus: an empty registry, no handler, mutex free
BInit ==
    /\ handlers = << >>
    /\ callback = [h \in HandlerIds |-> "none"]
    /\ hqueue = [h \in HandlerIds |-> <<>>]
    /\ hclosed = [h \in HandlerIds |-> FALSE]
    /\ hpc = [h \in HandlerIds |-> "none"]
    /\ nextH = 0
    /\ rlocked = {}
    /\ wlockWait = FALSE
    /\ bpc = [p \in Publishers |-> "idle"]
    /\ bcall = [p \in Publishers |-> NoPublish]
    /\ mpc = "idle"
    /\ mcall = NoCall
    /\ mret = [op |-> "none", err |-> Nil]
    /\ crashed = FALSE
    /\ invoked = [h \in HandlerIds |-> <<>>]
    /\ published = {}
    /\ nPub = 0
    /\ nRem = 0
    /\ unsubscribed = {}
    /\ calledAfter = [n \in 1..(MaxPublishes + 1) |-> {}]

\* isValidHandler: nil for a function value, an error for another value;
\* reflect.TypeOf(nil) is the nil Type, on which Kind() panics
isValidHandler(fn) ==
    IF fn \in Funcs THEN Nil
    ELSE IF fn = "nil" THEN Panic("nil pointer dereference")
    ELSE ErrNotFunc

\* buildHandlerArgs: the argument list of the k-th Publish (one tagged value)
buildHandlerArgs(k) == <<k>>

\* ---- Publish ----
\* goroutines outside Publish are interchangeable: a call is made by the
\* first of them
Earlier(q, p) == q = "q1" /\ p = "q2"

\* Publish is called: the arguments are built and mtx.RLock() is requested
PublishCall(p, topic) ==
    /\ ~crashed
    /\ bpc[p] = "idle"
    /\ \A q \in Publishers : bpc[q] = "idle" => ~Earlier(q, p)
    /\ nPub < MaxPublishes
    /\ nPub' = nPub + 1
    /\ bcall' = [bcall EXCEPT ![p] =
                   [topic |-> topic, args |-> buildHandlerArgs(nPub + 1), idx |-> 1,
                    barred |-> unsubscribed]]
    /\ bpc' = [bpc EXCEPT ![p] = "rlock"]
    /\ calledAfter' = [calledAfter EXCEPT ![nPub + 1] =
                          {e.args[1] : e \in published}]
    /\ UNCHANGED <<handlers, callback, hqueue, hclosed, hpc, nextH,
                   rlocked, wlockWait, mpc, mcall, mret, crashed,
                   invoked, published, nRem>>
    /\ UNCHANGED unsubscribed
    /\ UNCHANGED <<wvars, evars, xvars>>

\* Publish that skips the ", ok" test of the lookup: a missing topic is an
\* empty list and the call returns nil
PublishRLock_NoLookup(p) ==
    /\ ~crashed
    /\ bpc[p] = "rlock"
    /\ ~wlockWait
    /\ IF bcall[p].topic \in DOMAIN handlers /\ handlers[bcall[p].topic] # <<>>
       THEN /\ rlocked' = rlocked \cup {p}
            /\ bpc' = [bpc EXCEPT ![p] = "send"]
            /\ UNCHANGED <<published, bcall>>
       ELSE /\ bpc' = [bpc EXCEPT ![p] = "idle"]
            /\ bcall' = [bcall EXCEPT ![p] = NoPublish]
            /\ published' = published \cup
                   {[args |-> bcall[p].args, topic |-> bcall[p].topic,
                     hs |-> <<>>, ret |-> Nil, barred |-> bcall[p].barred]}
            /\ UNCHANGED rlocked
    /\ UNCHANGED <<handlers, callback, hqueue, hclosed, hpc, nextH,
                   wlockWait, mpc, mcall, mret, crashed, invoked,
                   nPub, nRem>>
    /\ UNCHANGED <<unsubscribed, calledAfter>>
    /\ UNCHANGED <<wvars, evars, xvars>>

\* Publish that hands the sends to a goroutine of its own: the caller gets
\* nil as soon as the topic is looked up, before any queue has the arguments
PublishRLock_Detached(p) ==
    /\ ~crashed
    /\ bpc[p] = "rlock"
    /\ ~wlockWait
    /\ IF bcall[p].topic \in DOMAIN handlers /\ handlers[bcall[p].topic] # <<>>
       THEN /\ rlocked' = rlocked \cup {p}
            /\ bpc' = [bpc EXCEPT ![p] = "send"]
            /\ published' = published \cup
                   {[args |-> bcall[p].args, topic |-> bcall[p].topic,
                     hs |-> handlers[bcall[p].topic], ret |-> Nil,
                     barred |-> bcall[p].barred]}
            /\ UNCHANGED bcall
       ELSE LET err == IF bcall[p].topic \in DOMAIN handlers
                       THEN Nil ELSE ErrNoHandlerFound IN
            /\ bpc' = [bpc EXCEPT ![p] = "idle"]
            /\ bcall' = [bcall EXCEPT ![p] = NoPublish]
            /\ published' = published \cup
                   {[args |-> bcall[p].args, topic |-> bcall[p].topic,
                     hs |-> <<>>, ret |-> err, barred |-> bcall[p].barred]}
            /\ UNCHANGED rlocked
    /\ UNCHANGED <<handlers, callback, hqueue, hclosed, hpc, nextH,
                   wlockWait, mpc, mcall, mret, crashed, invoked,
                   nPub, nRem>>
    /\ UNCHANGED <<unsubscribed, calledAfter>>
    /\ UNCHANGED <<wvars, evars, xvars>>

\* mtx.RLock() returns (no Lock() is waiting or held); the topic is looked up
PublishRLock(p) ==
    /\ ~crashed
    /\ bpc[p] = "rlock"
    /\ ~wlockWait
    /\ IF bcall[p].topic \in DOMAIN handlers /\ handlers[bcall[p].topic] # <<>>
       THEN /\ rlocked' = rlocked \cup {p}
            /\ bpc' = [bpc EXCEPT ![p] = "send"]
            /\ UNCHANGED <<published, bcall>>
       ELSE LET err == IF bcall[p].topic \in DOMAIN handlers
                       THEN Nil ELSE ErrNoHandlerFound IN
            /\ bpc' = [bpc EXCEPT ![p] = "idle"]
            /\ bcall' = [bcall EXCEPT ![p] = NoPublish]
            /\ published' = published \cup
                   {[args |-> bcall[p].args, topic |-> bcall[p].topic,
                     hs |-> <<>>, ret |-> err, barred |-> bcall[p].barred]}
            /\ UNCHANGED rlocked
    /\ UNCHANGED <<handlers, callback, hqueue, hclosed, hpc, nextH,
                   wlockWait, mpc, mcall, mret, crashed, invoked,
                   nPub, nRem>>
    /\ UNCHANGED <<unsubscribed, calledAfter>>
    /\ UNCHANGED <<wvars, evars, xvars>>

\* one iteration of "for _, h := range hs { h.queue <- rArgs }": the send
\* waits while the queue is full and panics on a closed queue; after the
\* last handler the deferred RUnlock runs and Publish returns nil
PublishSend(p) ==
    /\ ~crashed
    /\ bpc[p] = "send"
    /\ LET hs == handlers[bcall[p].topic]
           h == hs[bcall[p].idx]
           done(err) == published \cup
                   {[args |-> bcall[p].args, topic |-> bcall[p].topic,
                     hs |-> hs, ret |-> err, barred |-> bcall[p].barred]}
       IN IF hclosed[h]
          THEN /\ rlocked' = rlocked \ {p}
               /\ bpc' = [bpc EXCEPT ![p] = "idle"]
               /\ published' = done(Panic("send on closed channel"))
               /\ \E recovered \in BOOLEAN : crashed' = ~recovered
               /\ bcall' = [bcall EXCEPT ![p] = NoPublish]
               /\ UNCHANGED hqueue
          ELSE /\ Len(hqueue[h]) < HandlerQueueSize
               /\ hqueue' = [hqueue EXCEPT ![h] = Append(@, bcall[p].args)]
               /\ IF bcall[p].idx < Len(hs)
                  THEN /\ bcall' = [bcall EXCEPT ![p].idx = @ + 1]
                       /\ UNCHANGED <<rlocked, bpc, published>>
                  ELSE /\ rlocked' = rlocked \ {p}
                       /\ bpc' = [bpc EXCEPT ![p] = "idle"]
                       /\ published' = done(Nil)
                       /\ bcall' = [bcall EXCEPT ![p] = NoPublish]
               /\ UNCHANGED crashed
    /\ UNCHANGED <<handlers, callback, hclosed, hpc, nextH, wlockWait,
                   mpc, mcall, mret, invoked, nPub, nRem>>
    /\ UNCHANGED <<unsubscribed, calledAfter>>
    /\ UNCHANGED <<wvars, evars, xvars>>

\* publisher q is inside Publish, waiting to send to a full handler queue
blocked(q) ==
    /\ bpc[q] = "send"
    /\ Len(hqueue[handlers[bcall[q].topic][bcall[q].idx]]) >= HandlerQueueSize

\* a heavier load: once the MaxPublishes calls have been made, one more
\* Publish is called while another goroutine is still inside Publish
PublishCallOverlap(p, topic) ==
    /\ ~crashed
    /\ bpc[p] = "idle"
    /\ \E q \in Publishers : Earlier(q, p) /\ blocked(q)
    /\ nPub = MaxPublishes
    /\ nPub' = nPub + 1
    /\ bcall' = [bcall EXCEPT ![p] =
                   [topic |-> topic, args |-> buildHandlerArgs(nPub + 1), idx |-> 1,
                    barred |-> unsubscribed]]
    /\ bpc' = [bpc EXCEPT ![p] = "rlock"]
    /\ calledAfter' = [calledAfter EXCEPT ![nPub + 1] =
                          {e.args[1] : e \in published}]
    /\ UNCHANGED <<handlers, callback, hqueue, hclosed, hpc, nextH,
                   rlocked, wlockWait, mpc, mcall, mret, crashed,
                   invoked, published, nRem>>
    /\ UNCHANGED unsubscribed
    /\ UNCHANGED <<wvars, evars, xvars>>

Publish(p) ==
    \/ \E topic \in Topics : PublishCall(p, topic)
    \/ PublishRLock(p)
    \/ PublishSend(p)

\* ---- the consumer goroutine started by Subscribe ----
\* one iteration of "for args := range h.queue { h.callback.Call(args) }":
\* the next argument list is received and the callback runs and returns
ConsumerCall(h) ==
    /\ ~crashed
    /\ hpc[h] = "recv"
    /\ hqueue[h] # <<>>
    /\ invoked' = [invoked EXCEPT ![h] = Append(@, Head(hqueue[h]))]
    /\ hqueue' = [hqueue EXCEPT ![h] = Tail(@)]
    /\ UNCHANGED <<handlers, callback, hclosed, hpc, nextH, rlocked, wlockWait,
                   bpc, bcall, mpc, mcall, mret, crashed, published, nPub, nRem>>
    /\ UNCHANGED <<unsubscribed, calledAfter>>
    /\ UNCHANGED <<wvars, evars, xvars>>

\* the range loop ends once the queue is closed and drained
ConsumerExit(h) ==
    /\ ~crashed
    /\ hpc[h] = "recv"
    /\ hqueue[h] = <<>>
    /\ hclosed[h]
    /\ hpc' = [hpc EXCEPT ![h] = "exit"]
    /\ UNCHANGED <<handlers, callback, hqueue, hclosed, nextH, rlocked,
                   wlockWait, bpc, bcall, mpc, mcall, mret, crashed,
                   invoked, published, nPub, nRem>>
    /\ UNCHANGED <<unsubscribed, calledAfter>>
    /\ UNCHANGED <<wvars, evars, xvars>>

Consumer(h) == ConsumerCall(h) \/ ConsumerExit(h)

\* ---- Subscribe, Unsubscribe, Close ----
\* the registry with topic bound to the list hs
withTopic(topic, hs) ==
    [t \in DOMAIN handlers \cup {topic} |-> IF t = topic THEN hs ELSE handlers[t]]

\* the registry after delete(b.handlers, topic)
withoutTopic(topic) ==
    [t \in DOMAIN handlers \ {topic} |-> handlers[t]]

\* Subscribe is called: an invalid fn returns the error at once; otherwise
\* the handler is made, its consumer goroutine started, mtx.Lock() requested
SubscribeCall(topic, fn) ==
    /\ ~crashed
    /\ mpc = "idle"
    /\ IF isValidHandler(fn) # Nil
       THEN /\ mret' = [op |-> "Subscribe", err |-> isValidHandler(fn)]
            /\ IF isValidHandler(fn) = ErrNotFunc THEN UNCHANGED crashed
               ELSE \E recovered \in BOOLEAN : crashed' = ~recovered
            /\ UNCHANGED <<callback, hpc, nextH, wlockWait, mpc, mcall>>
       ELSE /\ nextH < MaxSubscribes
            /\ nextH = 0 => (topic = "a" /\ fn = "f")
            /\ nextH' = nextH + 1
            /\ callback' = [callback EXCEPT ![nextH + 1] = fn]
            /\ hpc' = [hpc EXCEPT ![nextH + 1] = "recv"]
            /\ wlockWait' = TRUE
            /\ mpc' = "lock"
            /\ mcall' = [op |-> "Subscribe", topic |-> topic, fn |-> fn,
                         h |-> nextH + 1]
            /\ UNCHANGED <<mret, crashed>>
    /\ UNCHANGED <<handlers, hqueue, hclosed, rlocked, bpc, bcall,
                   invoked, published, nPub, nRem>>
    /\ UNCHANGED <<unsubscribed, calledAfter>>
    /\ UNCHANGED <<wvars, evars, xvars>>

\* mtx.Lock() returns (no reader holds the mutex); the handler is appended
SubscribeLocked ==
    /\ ~crashed
    /\ mpc = "lock"
    /\ mcall.op = "Subscribe"
    /\ rlocked = {}
    /\ handlers' = withTopic(mcall.topic,
           Append(IF mcall.topic \in DOMAIN handlers
                  THEN handlers[mcall.topic] ELSE <<>>, mcall.h))
    /\ mret' = [op |-> "Subscribe", err |-> Nil]
    /\ mpc' = "idle"
    /\ mcall' = NoCall
    /\ wlockWait' = FALSE
    /\ UNCHANGED <<callback, hqueue, hclosed, hpc, nextH, rlocked, bpc,
                   bcall, crashed, invoked, published, nPub, nRem>>
    /\ UNCHANGED <<unsubscribed, calledAfter>>
    /\ UNCHANGED <<wvars, evars, xvars>>

Subscribe ==
    \/ \E topic \in Topics, fn \in Values : SubscribeCall(topic, fn)
    \/ SubscribeLocked

\* the loop of Unsubscribe from index i on. "range b.handlers[topic]" reads the
\* n elements of the backing array st.arr as they are when it reaches them,
\* while the body re-slices the map entry (st.ok: the key is present, st.len:
\* its length) and shifts the array in place. A panic stops the loop and keeps
\* what was done before it.
RECURSIVE unsubscribeLoop(_, _, _, _)
unsubscribeLoop(i, n, rv, st) ==
    IF i > n THEN st
    ELSE LET h == st.arr[i] IN
      IF callback[h] # rv THEN unsubscribeLoop(i + 1, n, rv, st)
      ELSE IF st.closed[h]
      THEN [st EXCEPT !.panic = Panic("close of closed channel")]
      ELSE LET c == [st EXCEPT !.closed[h] = TRUE] IN
        IF c.ok /\ c.len = 1
        THEN unsubscribeLoop(i + 1, n, rv, [c EXCEPT !.ok = FALSE, !.len = 0])
        ELSE IF ~c.ok \/ i > c.len
        THEN [c EXCEPT !.panic = Panic("slice bounds out of range")]
        ELSE unsubscribeLoop(i + 1, n, rv,
               [c EXCEPT !.arr = [k \in 1..n |-> IF k >= i /\ k < c.len
                                                 THEN c.arr[k + 1] ELSE c.arr[k]],
                         !.len = c.len - 1])

\* the loop of Close from index i on: close every queue of the list
RECURSIVE closeLoop(_, _, _)
closeLoop(i, hs, st) ==
    IF i > Len(hs) THEN st
    ELSE IF st.closed[hs[i]]
    THEN [st EXCEPT !.panic = Panic("close of closed channel")]
    ELSE closeLoop(i + 1, hs, [st EXCEPT !.closed[hs[i]] = TRUE])

\* Unsubscribe is called: an invalid fn returns the error at once; otherwise
\* mtx.Lock() is requested
UnsubscribeCall(topic, fn) ==
    /\ ~crashed
    /\ mpc = "idle"
    /\ nRem < MaxRemovals
    /\ nRem' = nRem + 1
    /\ IF isValidHandler(fn) # Nil
       THEN /\ mret' = [op |-> "Unsubscribe", err |-> isValidHandler(fn)]
            /\ IF isValidHandler(fn) = ErrNotFunc THEN UNCHANGED crashed
               ELSE \E recovered \in BOOLEAN : crashed' = ~recovered
            /\ UNCHANGED <<wlockWait, mpc, mcall>>
       ELSE /\ wlockWait' = TRUE
            /\ mpc' = "lock"
            /\ mcall' = [op |-> "Unsubscribe", topic |-> topic, fn |-> fn, h |-> 0]
            /\ UNCHANGED <<mret, crashed>>
    /\ UNCHANGED <<handlers, callback, hqueue, hclosed, hpc, nextH,
                   rlocked, bpc, bcall, invoked, published, nPub>>
    /\ UNCHANGED <<unsubscribed, calledAfter>>
    /\ UNCHANGED <<wvars, evars, xvars>>

\* what a locked removal leaves behind: st is the result of its loop
removalDone(st) ==
    /\ hclosed' = st.closed
    /\ handlers' = IF st.ok THEN withTopic(mcall.topic, SubSeq(st.arr, 1, st.len))
                   ELSE withoutTopic(mcall.topic)
    /\ IF st.panic = Nil
       THEN mret' = [op |-> mcall.op, err |-> Nil] /\ UNCHANGED crashed
       ELSE /\ mret' = [op |-> mcall.op, err |-> st.panic]
            /\ \E recovered \in BOOLEAN : crashed' = ~recovered

\* Unsubscribe that returns nil when the topic is absent
UnsubscribeLocked_NoTopicTest ==
    /\ ~crashed
    /\ mpc = "lock"
    /\ mcall.op = "Unsubscribe"
    /\ rlocked = {}
    /\ IF mcall.topic \in DOMAIN handlers
       THEN LET hs == handlers[mcall.topic] IN
            removalDone(unsubscribeLoop(1, Len(hs), mcall.fn,
                [arr |-> hs, ok |-> TRUE, len |-> Len(hs), closed |-> hclosed,
                 panic |-> Nil]))
       ELSE /\ mret' = [op |-> mcall.op, err |-> Nil]
            /\ UNCHANGED <<handlers, hclosed, crashed>>
    /\ mpc' = "idle"
    /\ mcall' = NoCall
    /\ wlockWait' = FALSE
    /\ UNCHANGED <<callback, hqueue, hpc, nextH, rlocked, bpc, bcall,
                   invoked, published, nPub, nRem>>
    /\ UNCHANGED <<unsubscribed, calledAfter>>
    /\ UNCHANGED <<wvars, evars, xvars>>

\* mtx.Lock() returns; the body of Unsubscribe runs, the deferred Unlock too
UnsubscribeLocked ==
    /\ ~crashed
    /\ mpc = "lock"
    /\ mcall.op = "Unsubscribe"
    /\ rlocked = {}
    /\ IF mcall.topic \in DOMAIN handlers
       THEN LET hs == handlers[mcall.topic] IN
            removalDone(unsubscribeLoop(1, Len(hs), mcall.fn,
                [arr |-> hs, ok |-> TRUE, len |-> Len(hs), closed |-> hclosed,
                 panic |-> Nil]))
       ELSE /\ mret' = [op |-> mcall.op, err |-> ErrTopicNotFound]
            /\ UNCHANGED <<handlers, hclosed, crashed>>
    /\ mpc' = "idle"
    /\ mcall' = NoCall
    /\ wlockWait' = FALSE
    /\ unsubscribed' =
          IF mcall.topic \in DOMAIN handlers /\ mret'.err = Nil
          THEN unsubscribed \cup
                 {<<mcall.topic, h>> : h \in {k \in Range(handlers[mcall.topic]) :
                                                callback[k] = mcall.fn}}
          ELSE unsubscribed
    /\ UNCHANGED <<callback, hqueue, hpc, nextH, rlocked, bpc, bcall,
                   invoked, published, nPub, nRem, calledAfter>>
    /\ UNCHANGED <<wvars, evars, xvars>>

Unsubscribe ==
    \/ \E topic \in Topics, fn \in Values : UnsubscribeCall(topic, fn)
    \/ UnsubscribeLocked

\* messageBus.Close is called: mtx.Lock() is requested
BusCloseCall(topic) ==
    /\ ~crashed
    /\ mpc = "idle"
    /\ nRem < MaxRemovals
    /\ nRem' = nRem + 1
    /\ wlockWait' = TRUE
    /\ mpc' = "lock"
    /\ mcall' = [op |-> "Close", topic |-> topic, fn |-> "none", h |-> 0]
    /\ UNCHANGED <<handlers, callback, hqueue, hclosed, hpc, nextH,
                   rlocked, bpc, bcall, mret, crashed, invoked,
                   published, nPub>>
    /\ UNCHANGED <<unsubscribed, calledAfter>>
    /\ UNCHANGED <<wvars, evars, xvars>>

\* mtx.Lock() returns; the body of messageBus.Close runs
BusCloseLocked ==
    /\ ~crashed
    /\ mpc = "lock"
    /\ mcall.op = "Close"
    /\ rlocked = {}
    /\ IF mcall.topic \in DOMAIN handlers
       THEN LET hs == handlers[mcall.topic]
                st == closeLoop(1, hs,
                        [arr |-> hs, ok |-> TRUE, len |-> Len(hs),
                         closed |-> hclosed, panic |-> Nil])
            IN removalDone(IF st.panic = Nil THEN [st EXCEPT !.ok = FALSE] ELSE st)
       ELSE /\ mret' = [op |-> mcall.op, err |-> ErrTopicNotFound]
            /\ UNCHANGED <<handlers, hclosed, crashed>>
    /\ mpc' = "idle"
    /\ mcall' = NoCall
    /\ wlockWait' = FALSE
    /\ UNCHANGED <<callback, hqueue, hpc, nextH, rlocked, bpc, bcall,
                   invoked, published, nPub, nRem>>
    /\ UNCHANGED <<unsubscribed, calledAfter>>
    /\ UNCHANGED <<wvars, evars, xvars>>

BusClose ==
    \/ \E topic \in Topics : BusCloseCall(topic)
    \/ BusCloseLocked

BNext ==
    \/ \E p \in Publishers : Publish(p)
    \/ \E h \in HandlerIds : Consumer(h)
    \/ Subscribe
    \/ Unsubscribe
    \/ BusClose

(***************************************************************************)
(* Specifications                                                          *)
(***************************************************************************)
WNext ==
    \/ \E p \in Producers : Write(p)
    \/ writer
    \/ Close
    \/ ParentCancel

\* ======================= eventBusImpl =======================
EInit ==
    /\ subscribers = << >>
    /\ echan = [c \in Channels |-> <<>>]
    /\ epc = [p \in Publishers |-> "idle"]
    /\ ecall = [p \in Publishers |-> NoEventPublish]
    /\ epublished = {}
    /\ subscriptionID = <<"none", 0>>
    /\ nEPub = 0
    /\ nESub = 0
    /\ nEUnsub = 0

\* the subscribers map with topic bound to the list sbs
withSubscribers(topic, sbs) ==
    [t \in (DOMAIN subscribers) \cup {topic} |->
        IF t = topic THEN sbs ELSE subscribers[t]]

\* append(sbs[:i], sbs[i+1:]...)
removeSubscriber(sbs, i) == SubSeq(sbs, 1, i - 1) \o SubSeq(sbs, i + 1, Len(sbs))

\* the result of a Publish call that has finished
eventPublished(p, sent, err) ==
    epublished \cup
        {[topic |-> ecall[p].topic, data |-> ecall[p].data,
          sbs |-> IF ecall[p].topic \in DOMAIN subscribers
                  THEN subscribers[ecall[p].topic] ELSE <<>>,
          sent |-> sent, ret |-> err]}

\* Publish is called: rm.RLock() is taken (Subscribe and Unsubscribe never
\* wait inside their critical sections) and the topic is looked up; a topic
\* that is not a key of the map returns ErrNoHandlerFound, a key bound to an
\* empty list runs the loop zero times and returns the nil err
EventPublishCall(p, topic) ==
    /\ epc[p] = "idle"
    /\ \A q \in Publishers : epc[q] = "idle" => ~Earlier(q, p)
    /\ nEPub < MaxEventPublishes
    /\ nEPub' = nEPub + 1
    /\ LET call == [topic |-> topic, data |-> nEPub + 1, idx |-> 1,
                    sent |-> <<>>, err |-> Nil] IN
       IF topic \in DOMAIN subscribers /\ subscribers[topic] # <<>>
       THEN /\ epc' = [epc EXCEPT ![p] = "send"]
            /\ ecall' = [ecall EXCEPT ![p] = call]
            /\ UNCHANGED epublished
       ELSE /\ epublished' = epublished \cup
                   {[topic |-> topic, data |-> nEPub + 1,
                     sbs |-> <<>>, sent |-> <<>>,
                     ret |-> IF topic \in DOMAIN subscribers
                             THEN Nil ELSE ErrNoHandlerFound]}
            /\ UNCHANGED <<epc, ecall>>
    /\ UNCHANGED <<subscribers, echan, subscriptionID, nESub, nEUnsub>>
    /\ UNCHANGED <<wvars, bvars, xvars>>

\* Publish that gives up at the first full channel: it returns the
\* queue-full error without trying the subscribers after it
EventPublishSend_StopAtFull(p) ==
    /\ epc[p] = "send"
    /\ LET topic == ecall[p].topic
           sbs == subscribers[topic]
           sb == sbs[ecall[p].idx]
           dataEvent == [Data |-> ecall[p].data, Topic |-> topic]
           room == Len(echan[sb.ch]) < EventChanSize
           err == IF room THEN ecall[p].err ELSE ErrEventQueueFull(topic)
           sent == Append(ecall[p].sent, room)
       IN /\ echan' = IF room
                      THEN [echan EXCEPT ![sb.ch] = Append(@, dataEvent)]
                      ELSE echan
          /\ IF ecall[p].idx < Len(sbs) /\ room
             THEN /\ ecall' = [ecall EXCEPT ![p].idx = @ + 1,
                                            ![p].sent = sent,
                                            ![p].err = err]
                  /\ UNCHANGED <<epc, epublished>>
             ELSE /\ epublished' = eventPublished(p, sent, err)
                  /\ epc' = [epc EXCEPT ![p] = "idle"]
                  /\ ecall' = [ecall EXCEPT ![p] = NoEventPublish]
    /\ UNCHANGED <<subscribers, subscriptionID, nEPub, nESub, nEUnsub>>
    /\ UNCHANGED <<wvars, bvars, xvars>>

\* one iteration of "for _, sb := range sbs { select { case sb.ch <-
\* dataEvent: default: err = ... } }": the event is sent if the channel has
\* room, else err is set; after the last subscriber the deferred RUnlock
\* runs and Publish returns err
EventPublishSend(p) ==
    /\ epc[p] = "send"
    /\ LET topic == ecall[p].topic
           sbs == subscribers[topic]
           sb == sbs[ecall[p].idx]
           dataEvent == [Data |-> ecall[p].data, Topic |-> topic]
           room == Len(echan[sb.ch]) < EventChanSize
           err == IF room THEN ecall[p].err ELSE ErrEventQueueFull(topic)
           sent == Append(ecall[p].sent, room)
       IN /\ echan' = IF room
                      THEN [echan EXCEPT ![sb.ch] = Append(@, dataEvent)]
                      ELSE echan
          /\ IF ecall[p].idx < Len(sbs)
             THEN /\ ecall' = [ecall EXCEPT ![p].idx = @ + 1,
                                            ![p].sent = sent,
                                            ![p].err = err]
                  /\ UNCHANGED <<epc, epublished>>
             ELSE /\ epublished' = eventPublished(p, sent, err)
                  /\ epc' = [epc EXCEPT ![p] = "idle"]
                  /\ ecall' = [ecall EXCEPT ![p] = NoEventPublish]
    /\ UNCHANGED <<subscribers, subscriptionID, nEPub, nESub, nEUnsub>>
    /\ UNCHANGED <<wvars, bvars, xvars>>

EventPublish(p) ==
    \/ \E topic \in Topics : EventPublishCall(p, topic)
    \/ EventPublishSend(p)

\* Subscribe: rm.Lock() is held once no Publish holds the read lock; the ID
\* is made from the topic and the length of its list plus one, and the
\* subscriber is appended to the list (a new list for a new topic)
EventSubscribe(topic, ch) ==
    /\ \A p \in Publishers : epc[p] = "idle"
    /\ nESub < MaxEventSubscribes
    /\ nESub' = nESub + 1
    /\ LET prev == IF topic \in DOMAIN subscribers
                   THEN subscribers[topic] ELSE <<>>
           id == generateUInt64ID(topic, Len(prev) + 1)
           s == [subscriptionID |-> id, ch |-> ch]
       IN /\ subscribers' = withSubscribers(topic, Append(prev, s))
          /\ subscriptionID' = id
    /\ UNCHANGED <<echan, epc, ecall, epublished, nEPub, nEUnsub>>
    /\ UNCHANGED <<wvars, bvars, xvars>>

\* Unsubscribe that drops the last subscriber of the topic when no
\* subscriber holds the ID
EventUnsubscribe_DropLast(topic, id) ==
    /\ \A p \in Publishers : epc[p] = "idle"
    /\ nEUnsub < MaxEventUnsubscribes
    /\ nEUnsub' = nEUnsub + 1
    /\ IF topic \in DOMAIN subscribers /\ subscribers[topic] # <<>>
       THEN LET sbs == subscribers[topic]
                i == IF \E k \in 1..Len(sbs) : sbs[k].subscriptionID = id
                     THEN CHOOSE k \in 1..Len(sbs) :
                            /\ sbs[k].subscriptionID = id
                            /\ \A j \in 1..(k - 1) : sbs[j].subscriptionID # id
                     ELSE Len(sbs)
            IN subscribers' = withSubscribers(topic, removeSubscriber(sbs, i))
       ELSE UNCHANGED subscribers
    /\ UNCHANGED <<echan, epc, ecall, epublished, subscriptionID, nEPub, nESub>>
    /\ UNCHANGED <<wvars, bvars, xvars>>

\* Unsubscribe: under rm.Lock(), the first subscriber of the topic with the
\* given ID is cut out of the list, which stays bound to the topic
EventUnsubscribe(topic, id) ==
    /\ \A p \in Publishers : epc[p] = "idle"
    /\ nEUnsub < MaxEventUnsubscribes
    /\ nEUnsub' = nEUnsub + 1
    /\ IF topic \in DOMAIN subscribers
          /\ \E i \in 1..Len(subscribers[topic]) :
                subscribers[topic][i].subscriptionID = id
       THEN LET sbs == subscribers[topic]
                i == CHOOSE k \in 1..Len(sbs) :
                        /\ sbs[k].subscriptionID = id
                        /\ \A j \in 1..(k - 1) : sbs[j].subscriptionID # id
            IN subscribers' = withSubscribers(topic, removeSubscriber(sbs, i))
       ELSE UNCHANGED subscribers
    /\ UNCHANGED <<echan, epc, ecall, epublished, subscriptionID, nEPub, nESub>>
    /\ UNCHANGED <<wvars, bvars, xvars>>

\* the owner of a channel receives the next event from it
EventReceive(ch) ==
    /\ echan[ch] # <<>>
    /\ echan' = [echan EXCEPT ![ch] = Tail(@)]
    /\ UNCHANGED <<subscribers, epc, ecall, epublished, subscriptionID,
                   nEPub, nESub, nEUnsub>>
    /\ UNCHANGED <<wvars, bvars, xvars>>

ENext ==
    \/ \E p \in Publishers : EventPublish(p)
    \/ \E topic \in Topics, ch \in Channels : EventSubscribe(topic, ch)
    \/ \E topic \in Topics, id \in SubscriptionIDs : EventUnsubscribe(topic, id)
    \/ \E ch \in Channels : EventReceive(ch)

\* ======================= GzipFileWriter =======================
\* an I/O error of the gzip writer or the file
ErrIO(what) == <<"I/O error", what>>

\* state after NewGzipFileWriter(filePath, gzipIt): an empty file, and an
\* AsyncWriter whose sink is the gzip writer around the file, or the file
GInitWith(gz) ==
    /\ gzipIt = gz
    /\ gpc = "idle"
    /\ gzFlushed = 0
    /\ gzClosed = FALSE
    /\ fileClosed = FALSE
    /\ gzCloseRet = <<>>

GInit == GInitWith(TRUE)

\* the byte slices the sink's Write took without an error, in order
sinkWritten ==
    SelectSeq(sink, LAMBDA c : SinkErr(c) \notin Range(sinkErrs))

\* what reading the file back gives: with gzip, the slices the gzip writer
\* has compressed into the file so far; without, the slices written
fileData ==
    IF gzipIt THEN SubSeq(sinkWritten, 1, gzFlushed) ELSE sinkWritten

\* GzipFileWriter.Close, line 123: aw.writer.Close(&aw.wg) is called
GzipCloseCancel ==
    /\ gpc = "idle"
    /\ Len(closeRet) = Len(gzCloseRet)
    /\ CloseCancel

\* aw.writer.Close(&aw.wg) returns; its error is overwritten below
GzipCloseWait ==
    /\ gpc = "idle"
    /\ CloseWait

\* lines 126-130: a nil gzipWriter skips to the file; else Flush puts what
\* the gzip writer holds into the file, or fails and Close returns the error
GzipFlush ==
    /\ gpc = "idle"
    /\ cpc = "idle"
    /\ Len(closeRet) > Len(gzCloseRet)
    /\ IF ~gzipIt
       THEN /\ gpc' = "fileClose"
            /\ UNCHANGED <<gzFlushed, gzCloseRet>>
       ELSE \E ok \in BOOLEAN :
              IF ok
              THEN /\ gzFlushed' = Len(sinkWritten)
                   /\ gpc' = "gzClose"
                   /\ UNCHANGED gzCloseRet
              ELSE /\ gzCloseRet' = Append(gzCloseRet, ErrIO("Flush"))
                   /\ UNCHANGED <<gzFlushed, gpc>>
    /\ UNCHANGED <<gzipIt, gzClosed, fileClosed>>
    /\ UNCHANGED notG

\* lines 131-134: gzipWriter.Close writes the trailer, or fails and Close
\* returns the error
GzipWriterClose ==
    /\ gpc = "gzClose"
    /\ \E ok \in BOOLEAN :
          IF ok
          THEN /\ gzClosed' = TRUE
               /\ gpc' = "fileClose"
               /\ UNCHANGED gzCloseRet
          ELSE /\ gzCloseRet' = Append(gzCloseRet, ErrIO("gzipWriter.Close"))
               /\ gpc' = "idle"
               /\ UNCHANGED gzClosed
    /\ UNCHANGED <<gzipIt, gzFlushed, fileClosed>>
    /\ UNCHANGED notG

\* lines 136-140: file.Close, whose result Close returns; closing a file
\* that is closed already is an error
GzipFileClose ==
    /\ gpc = "fileClose"
    /\ \E ok \in BOOLEAN :
          gzCloseRet' = Append(gzCloseRet,
                               IF fileClosed THEN ErrIO("file already closed")
                               ELSE IF ok THEN Nil ELSE ErrIO("file.Close"))
    /\ fileClosed' = TRUE
    /\ gpc' = "idle"
    /\ UNCHANGED <<gzipIt, gzFlushed, gzClosed>>
    /\ UNCHANGED notG

GzipClose ==
    \/ GzipCloseCancel
    \/ GzipCloseWait
    \/ GzipFlush
    \/ GzipWriterClose
    \/ GzipFileClose

\* GzipFileWriter.Write is AsyncWriter.Write; the writer() goroutine runs
GNext ==
    \/ \E p \in Producers : Write(p)
    \/ writer
    \/ GzipClose

\* ======================= TopicMatcher =======================
\* strings.Split(s, "/")
RECURSIVE Split(_)
Split(s) ==
    IF \A i \in 1..Len(s) : s[i] # "/" THEN <<s>>
    ELSE LET k == CHOOSE i \in 1..Len(s) :
                     s[i] = "/" /\ \A j \in 1..(i - 1) : s[j] # "/"
         IN <<SubSeq(s, 1, k - 1)>> \o Split(SubSeq(s, k + 1, Len(s)))

\* strings.Join(parts, "/")
RECURSIVE Join(_)
Join(parts) ==
    IF parts = <<>> THEN <<>>
    ELSE IF Len(parts) = 1 THEN parts[1]
    ELSE parts[1] \o <<"/">> \o Join(Tail(parts))

\* NewTopicFilter: the parts of the filter and the positions of "+" and "#"
NewTopicFilter(filter) ==
    LET parts == Split(filter) IN
    [filterParts |-> parts,
     wildcards |-> {i \in 1..Len(parts) : parts[i] \in {<<"+">>, <<"#">>}}]

\* TopicFilter.Matches
Matches(tf, topic) ==
    LET parts == Split(topic) IN
    /\ Len(parts) = Len(tf.filterParts)
    /\ \A i \in 1..Len(tf.filterParts) :
          i \in tf.wildcards \/ tf.filterParts[i] = parts[i]

\* NewTopicMatcher(nil): no filter, an empty cache
TInit ==
    /\ tmFilters = <<>>
    /\ tmCache = << >>
    /\ tmRet = [op |-> "none", topic |-> <<>>, matched |-> FALSE]
    /\ tmCalls = 0

\* AddFilter appends the filter
AddFilter(filter) ==
    /\ tmCalls < MaxMatcherCalls
    /\ tmCalls' = tmCalls + 1
    /\ tmFilters' = Append(tmFilters, NewTopicFilter(filter))
    /\ tmRet' = [op |-> "AddFilter", topic |-> <<>>, matched |-> FALSE]
    /\ UNCHANGED tmCache
    /\ UNCHANGED notT

\* RemoveFilter cuts out the first filter whose joined parts are the string
RemoveFilter(filter) ==
    /\ tmCalls < MaxMatcherCalls
    /\ tmCalls' = tmCalls + 1
    /\ LET hit == {i \in 1..Len(tmFilters) : Join(tmFilters[i].filterParts) = filter}
       IN IF hit = {} THEN UNCHANGED tmFilters
          ELSE LET index == CHOOSE i \in hit : \A j \in hit : i <= j
               IN tmFilters' = SubSeq(tmFilters, 1, index - 1)
                               \o SubSeq(tmFilters, index + 1, Len(tmFilters))
    /\ tmRet' = [op |-> "RemoveFilter", topic |-> <<>>, matched |-> FALSE]
    /\ UNCHANGED tmCache
    /\ UNCHANGED notT

\* Match: true without filters; else the cached answer for the topic if
\* there is one; else the filters are tried and the answer is cached
Match(topic) ==
    /\ tmCalls < MaxMatcherCalls
    /\ tmCalls' = tmCalls + 1
    /\ IF Len(tmFilters) = 0
       THEN /\ tmRet' = [op |-> "Match", topic |-> topic, matched |-> TRUE]
            /\ UNCHANGED tmCache
       ELSE IF topic \in DOMAIN tmCache
       THEN /\ tmRet' = [op |-> "Match", topic |-> topic, matched |-> tmCache[topic]]
            /\ UNCHANGED tmCache
       ELSE LET matched == \E i \in 1..Len(tmFilters) : Matches(tmFilters[i], topic)
            IN /\ tmCache' = [t \in (DOMAIN tmCache) \cup {topic} |->
                                 IF t = topic THEN matched ELSE tmCache[t]]
               /\ tmRet' = [op |-> "Match", topic |-> topic, matched |-> matched]
    /\ UNCHANGED tmFilters
    /\ UNCHANGED notT

TNext ==
    \/ \E filter \in FilterStrings : AddFilter(filter)
    \/ \E filter \in FilterStrings : RemoveFilter(filter)
    \/ \E topic \in TopicStrings : Match(topic)

\* ======================= InitTLSConfig =======================
\* GetCA: the pool for a CA that loads, or nil and an error
GetCA(caPath) ==
    IF caPath = "badCA"
    THEN [pool |-> NilPtr, err |-> <<"failed to load ca", caPath>>]
    ELSE [pool |-> <<"pool", caPath>>, err |-> Nil]

\* GetKeyPair: the pair for a certificate and a key that load, or the
\* empty certificate and an error
GetKeyPair(certPath, keyPath) ==
    IF certPath = "badCert"
    THEN [pair |-> <<"pair">>, err |-> <<"failed to load certificate file", certPath>>]
    ELSE IF keyPath = "badKey"
    THEN [pair |-> <<"pair">>, err |-> <<"failed to load key file", keyPath>>]
    ELSE [pair |-> <<"pair", certPath, keyPath>>, err |-> Nil]

\* &tls.Config{MinVersion: tls.VersionTLS12, Certificates: ..., RootCAs: ...}
tlsConfig(pair, rootCAs) == <<"tls.Config", "VersionTLS12", pair, rootCAs>>

NoTLSCall == [n |-> 0, caPath |-> "none", certPath |-> "none", keyPath |-> "none",
              errInit |-> Nil]

\* package initialisation: the zero Once, nil shared pointers
SInit ==
    /\ onceDone = FALSE
    /\ onceBusy = "none"
    /\ sharedRoot = NilPtr
    /\ sharedCert = NilPtr
    /\ sharedTLS = NilPtr
    /\ tpc = [c \in TLSCallers |-> "idle"]
    /\ tcall = [c \in TLSCallers |-> NoTLSCall]
    /\ tlsRet = {}
    /\ initRuns = 0
    /\ nTLS = 0

\* InitTLSConfig is called: "var errInit error"
InitTLSCall(c, caPath, certPath, keyPath) ==
    /\ tpc[c] = "idle"
    /\ \A d \in TLSCallers : (d = "t1" /\ c = "t2") => tpc[d] # "idle"
    /\ nTLS < MaxTLSCalls
    /\ nTLS' = nTLS + 1
    /\ tcall' = [tcall EXCEPT ![c] =
                   [n |-> nTLS + 1, caPath |-> caPath, certPath |-> certPath,
                    keyPath |-> keyPath, errInit |-> Nil]]
    /\ tpc' = [tpc EXCEPT ![c] = "once"]
    /\ UNCHANGED <<onceDone, onceBusy, sharedRoot, sharedCert, sharedTLS,
                   tlsRet, initRuns>>
    /\ UNCHANGED notS

\* once.Do that runs the function on every call
OnceDo_EveryCall(c) ==
    /\ tpc[c] = "once"
    /\ onceBusy = "none"
    /\ onceBusy' = c
    /\ tpc' = [tpc EXCEPT ![c] = "init"]
    /\ UNCHANGED <<onceDone, sharedRoot, sharedCert, sharedTLS, tcall, tlsRet,
                   initRuns, nTLS>>
    /\ UNCHANGED notS

\* once.Do: returns at once when the function has run; else takes the
\* mutex of the Once (waiting while another caller runs the function),
\* tests again, and runs the function
OnceDo(c) ==
    /\ tpc[c] = "once"
    /\ IF onceDone
       THEN /\ tpc' = [tpc EXCEPT ![c] = "return"]
            /\ UNCHANGED onceBusy
       ELSE /\ onceBusy = "none"
            /\ onceBusy' = c
            /\ tpc' = [tpc EXCEPT ![c] = "init"]
    /\ UNCHANGED <<onceDone, sharedRoot, sharedCert, sharedTLS, tcall, tlsRet,
                   initRuns, nTLS>>
    /\ UNCHANGED notS

\* the function passed to once.Do, lines 35-52: GetCA assigns sharedRoot and
\* the errInit of InitTLSConfig; "certPair, errInit := GetKeyPair(...)"
\* declares a new errInit inside the function, so a failure of GetKeyPair
\* leaves the errInit of InitTLSConfig nil; then Do marks the Once done
InitBody(c) ==
    /\ tpc[c] = "init"
    /\ LET ca == GetCA(tcall[c].caPath)
           kp == GetKeyPair(tcall[c].certPath, tcall[c].keyPath)
       IN /\ sharedRoot' = ca.pool
          /\ tcall' = [tcall EXCEPT ![c].errInit = ca.err]
          /\ IF ca.err # Nil \/ kp.err # Nil
             THEN UNCHANGED <<sharedCert, sharedTLS>>
             ELSE /\ sharedCert' = kp.pair
                  /\ sharedTLS' = tlsConfig(kp.pair, ca.pool)
    /\ initRuns' = initRuns + 1
    /\ onceDone' = TRUE
    /\ onceBusy' = "none"
    /\ tpc' = [tpc EXCEPT ![c] = "return"]
    /\ UNCHANGED <<tlsRet, nTLS>>
    /\ UNCHANGED notS

\* line 55: return sharedTLS, errInit
InitTLSReturn(c) ==
    /\ tpc[c] = "return"
    /\ tlsRet' = tlsRet \cup
          {[n |-> tcall[c].n, caPath |-> tcall[c].caPath,
            certPath |-> tcall[c].certPath, keyPath |-> tcall[c].keyPath,
            config |-> sharedTLS, err |-> tcall[c].errInit]}
    /\ tcall' = [tcall EXCEPT ![c] = NoTLSCall]
    /\ tpc' = [tpc EXCEPT ![c] = "idle"]
    /\ UNCHANGED <<onceDone, onceBusy, sharedRoot, sharedCert, sharedTLS,
                   initRuns, nTLS>>
    /\ UNCHANGED notS

InitTLSConfig(c) ==
    \/ \E caPath \in CAPaths, certPath \in CertPaths, keyPath \in KeyPaths :
          InitTLSCall(c, caPath, certPath, keyPath)
    \/ OnceDo(c)
    \/ InitBody(c)
    \/ InitTLSReturn(c)

SNext == \E c \in TLSCallers : InitTLSConfig(c)

\* ======================= directorySizerImpl =======================
\* an empty directory, no sizer yet
DInit ==
    /\ dirFiles = << >>
    /\ maxSizeBytes = 0
    /\ dsRemoved = {}
    /\ dsCalls = 0

\* NewDirectorySizer(dirPath, MaxSizeBytes)
NewDirectorySizer(max) ==
    /\ maxSizeBytes = 0
    /\ maxSizeBytes' = max
    /\ UNCHANGED <<dirFiles, dsRemoved, dsCalls>>
    /\ UNCHANGED notD

\* a file is written into the directory
CreateFile(name, modTime, size) ==
    /\ name \notin DOMAIN dirFiles
    /\ \A n \in FileNames : n < name => n \in DOMAIN dirFiles
    /\ dsCalls < MaxSizerCalls
    /\ dirFiles' = [n \in (DOMAIN dirFiles) \cup {name} |->
                      IF n = name THEN [modTime |-> modTime, size |-> size]
                      ELSE dirFiles[n]]
    /\ UNCHANGED <<maxSizeBytes, dsRemoved, dsCalls>>
    /\ UNCHANGED notD

\* the orders sort.Slice can leave the entries in: every entry once, no
\* entry before one with an earlier modification time (entries with equal
\* times in any order: sort.Slice is not stable)
sortedByModTime(files) ==
    {s \in [1..Cardinality(DOMAIN files) -> DOMAIN files] :
        /\ \A i, j \in DOMAIN s : i # j => s[i] # s[j]
        /\ \A i, j \in DOMAIN s :
              i < j => ~(files[s[j]].modTime < files[s[i]].modTime)}

\* totalSize after the first k entries of the order
RECURSIVE totalSize(_, _, _)
totalSize(files, order, k) ==
    IF k = 0 THEN 0 ELSE totalSize(files, order, k - 1) + files[order[k]].size

\* RemoveElderFiles, lines 269-298: the entries are sorted oldest first, the
\* sizes are added up in that order, and every file at which the running
\* total is above MaxSizeBytes is removed
RemoveElderFiles ==
    /\ maxSizeBytes > 0
    /\ dsCalls < MaxSizerCalls
    /\ dsCalls' = dsCalls + 1
    /\ \E order \in sortedByModTime(dirFiles) :
          LET removed == {order[k] : k \in {i \in DOMAIN order :
                               totalSize(dirFiles, order, i) > maxSizeBytes}}
          IN /\ dsRemoved' = removed
             /\ dirFiles' = [n \in (DOMAIN dirFiles) \ removed |-> dirFiles[n]]
    /\ UNCHANGED maxSizeBytes
    /\ UNCHANGED notD

DNext ==
    \/ \E max \in 1..MaxDirBytes : NewDirectorySizer(max)
    \/ \E name \in FileNames, modTime \in 1..MaxModTime, size \in 1..MaxFileSize :
          CreateFile(name, modTime, size)
    \/ RemoveElderFiles

\* ======================= StringReplacer =======================
Strings == UNION {[1..n -> StrAlphabet] : n \in 0..MaxStrLen}

\* NewStringReplacer, lines 21-24: the pairs turned round
ReverseReplacePairs ==
    [v \in {ReplacePairs[k] : k \in DOMAIN ReplacePairs} |->
        CHOOSE k \in DOMAIN ReplacePairs : ReplacePairs[k] = v]

\* strings.Replace(s, old, new, -1) for a non-empty old: every
\* non-overlapping occurrence of old, from the left, becomes new
RECURSIVE stringsReplace(_, _, _)
stringsReplace(s, old, new) ==
    IF Len(s) < Len(old) THEN s
    ELSE IF SubSeq(s, 1, Len(old)) = old
         THEN new \o stringsReplace(SubSeq(s, Len(old) + 1, Len(s)), old, new)
         ELSE <<s[1]>> \o stringsReplace(Tail(s), old, new)

\* the orders in which a range over the map can visit its keys
rangeOrders(pairs) ==
    {o \in [1..Cardinality(DOMAIN pairs) -> DOMAIN pairs] :
        \A i, j \in DOMAIN o : i # j => o[i] # o[j]}

\* the loop of lines 44-46 and 66-68 after its first k rounds
RECURSIVE replaceLoop(_, _, _, _)
replaceLoop(s, pairs, order, k) ==
    IF k = 0 THEN s
    ELSE stringsReplace(replaceLoop(s, pairs, order, k - 1),
                        order[k], pairs[order[k]])

NoReplacerCall == <<"none", << >> >>

\* NewStringReplacer(replacePairs): an empty cache
RInit ==
    /\ cache = << >>
    /\ srCall = NoReplacerCall
    /\ srRet = << >>
    /\ nReplace = 0

\* getFromCache, then either the cached value or the loop and addToCache
cachedOrComputed(input, pairs) ==
    IF input \in DOMAIN cache
    THEN /\ srRet' = cache[input]
         /\ UNCHANGED cache
    ELSE \E order \in rangeOrders(pairs) :
            LET modifiedString ==
                    replaceLoop(input, pairs, order, Len(order))
            IN /\ cache' = [k \in (DOMAIN cache) \cup {input} |->
                              IF k = input THEN modifiedString ELSE cache[k]]
               /\ srRet' = modifiedString

\* Replace, lines 33-52
Replace(input) ==
    /\ nReplace < MaxReplacerCalls
    /\ nReplace' = nReplace + 1
    /\ srCall' = <<"Replace", input>>
    /\ cachedOrComputed(input, ReplacePairs)
    /\ UNCHANGED notR

\* ReverseReplace, lines 55-74
ReverseReplace(input) ==
    /\ nReplace < MaxReplacerCalls
    /\ nReplace' = nReplace + 1
    /\ srCall' = <<"ReverseReplace", input>>
    /\ cachedOrComputed(input, ReverseReplacePairs)
    /\ UNCHANGED notR

RNext ==
    \E input \in Strings : Replace(input) \/ ReverseReplace(input)

\* ======================= LoopingIntRangeIterator =======================
\* the int that an int operation with the exact result n leaves
wrap(n) == ((n - MinInt) % (2 ^ IntBits)) + MinInt

\* no iterator yet
LInit ==
    /\ Start = 0
    /\ End = 0
    /\ Current = 0
    /\ itCall = "none"
    /\ itRet = 0
    /\ nIter = 0

\* NewLoopingIntRangeIterator(start, end), lines 52-54
NewLoopingIntRangeIterator(start, end) ==
    /\ itCall = "none"
    /\ start <= end
    /\ Start' = start
    /\ End' = end
    /\ Current' = wrap(start - 1)
    /\ itCall' = "New"
    /\ UNCHANGED <<itRet, nIter>>
    /\ UNCHANGED notL

\* Next, lines 57-63
LoopingIntRangeNext ==
    /\ itCall # "none"
    /\ nIter < MaxIterCalls
    /\ nIter' = nIter + 1
    /\ LET incremented == wrap(Current + 1)
       IN Current' = IF incremented > End THEN Start ELSE incremented
    /\ itRet' = Current'
    /\ itCall' = "Next"
    /\ UNCHANGED <<Start, End>>
    /\ UNCHANGED notL

\* Reset, lines 66-68
LoopingIntRangeReset ==
    /\ itCall # "none"
    /\ nIter < MaxIterCalls
    /\ nIter' = nIter + 1
    /\ Current' = wrap(Start - 1)
    /\ itCall' = "Reset"
    /\ UNCHANGED <<Start, End, itRet>>
    /\ UNCHANGED notL

LNext ==
    \/ \E start, end \in GoInt : NewLoopingIntRangeIterator(start, end)
    \/ LoopingIntRangeNext
    \/ LoopingIntRangeReset

Init == WInit /\ BInit /\ EInit /\ GInit /\ TInit /\ SInit /\ DInit /\ RInit /\ LInit

MatcherSpec == Init /\ [][TNext]_vars

TLSSpec == Init /\ [][SNext]_vars

SizerSpec == Init /\ [][DNext]_vars

ReplacerSpec == Init /\ [][RNext]_vars

IterSpec == Init /\ [][LNext]_vars

\* a GzipFileWriter made with either value of gzipIt
GzipInit ==
    /\ WInit
    /\ BInit
    /\ EInit
    /\ TInit
    /\ SInit
    /\ DInit
    /\ RInit
    /\ LInit
    /\ \E gz \in BOOLEAN : GInitWith(gz)

GzipSpec == GzipInit /\ [][GNext]_vars

EventSpec == Init /\ [][ENext]_vars

WriterSpec == Init /\ [][WNext]_vars

\* the Go scheduler runs every runnable goroutine: the writer() goroutine and
\* the goroutine inside Close keep taking steps while they can
WriterFairSpec ==
    /\ WriterSpec
    /\ WF_vars(writer)
    /\ WF_vars(Close)

\* a heavier load: once the MaxRemovals calls have been made and the last one
\* has panicked, its caller recovers and calls messageBus.Close
BusCloseCallAfterPanic(topic) ==
    /\ ~crashed
    /\ mpc = "idle"
    /\ nRem = MaxRemovals
    /\ mret.err \in {Panic("close of closed channel"),
                     Panic("slice bounds out of range")}
    /\ nRem' = nRem + 1
    /\ wlockWait' = TRUE
    /\ mpc' = "lock"
    /\ mcall' = [op |-> "Close", topic |-> topic, fn |-> "none", h |-> 0]
    /\ UNCHANGED <<handlers, callback, hqueue, hclosed, hpc, nextH,
                   rlocked, bpc, bcall, mret, crashed, invoked,
                   published, nPub>>
    /\ UNCHANGED <<unsubscribed, calledAfter>>
    /\ UNCHANGED <<wvars, evars, xvars>>

\* the bus under the heavier load
BLoadNext ==
    \/ BNext
    \/ \E p \in Publishers, topic \in Topics : PublishCallOverlap(p, topic)
    \/ \E topic \in Topics : BusCloseCallAfterPanic(topic)

BusLoadSpec == Init /\ [][BLoadNext]_vars

\* the bus whose callers also pass the nil interface value as the handler
BNilNext ==
    \/ BNext
    \/ \E topic \in Topics : SubscribeCall(topic, "nil")
    \/ \E topic \in Topics : UnsubscribeCall(topic, "nil")

BusNilSpec == Init /\ [][BNilNext]_vars

BusSpec == Init /\ [][BNext]_vars

\* every consumer goroutine, every goroutine inside Publish and the goroutine
\* inside Subscribe / Unsubscribe / Close keeps taking steps while it can
BusFairSpec ==
    /\ BusSpec
    /\ \A h \in HandlerIds : WF_vars(Consumer(h))
    /\ \A p \in Publishers : WF_vars(PublishRLock(p) \/ PublishSend(p))
    /\ WF_vars(SubscribeLocked \/ UnsubscribeLocked \/ BusCloseLocked)

C3_CloseWritesAllAcceptedBefore ==
    \A c \in 1..Len(closeRet) :
        \A i \in 1..closeSnap[c] : accepted[i] \in Range(sink)

\* C4: a Write called after writer() has exited returns (0, ErrClosed) and
\* enqueues nothing, and nothing more is passed to the sink
C4_ClosedWriterRejects ==
    [][wpc = "done" =>
          /\ sink' = sink
          /\ \A p \in Producers :
                (ppc[p] = "idle" /\ pcount'[p] # pcount[p]) =>
                    /\ pret'[p] = <<0, ErrClosed>>
                    /\ ppc'[p] = "idle"
                    /\ queue' = queue]_vars

\* Close has returned and a Write called after writer() exited got ErrClosed
C4_Witness ==
    /\ closeRet # <<>>
    /\ sink # <<>>
    /\ \E p \in Producers : pdone[p] /\ pret[p] = <<0, ErrClosed>>

\* C5: a Write that finds a sink error pending returns (0, the oldest pending
\* error) and enqueues nothing; every pending error is the sink's error for a
\* buffer whose Write had returned (len, nil)
C5_PendingErrorReturned ==
    /\ [][\A p \in Producers :
            (ppc[p] = "errChan" /\ ppc'[p] # "errChan" /\ errChan # <<>>) =>
                /\ pret'[p] = <<0, Head(errChan)>>
                /\ errChan' = Tail(errChan)
                /\ ppc'[p] = "idle"
                /\ queue' = queue
                /\ pbuf'[p] = 0]_vars
    /\ [](\A i \in 1..Len(errChan) :
            /\ errChan[i][1] = "sinkError"
            /\ errChan[i][2] \in Range(accepted))

\* a Write has returned the error the sink gave for an earlier, accepted Write
C5_Witness ==
    \E p \in Producers, i \in 1..Len(accepted) :
        /\ ppc[p] = "idle"
        /\ pret[p] = <<0, SinkErr(accepted[i])>>
        /\ ~isClosed

\* C6: a Write that finds the queue full returns (0, ErrQueueFull) at once and
\* leaves the queue as it was; otherwise its buffer goes to the back of the
\* queue; the buffers waiting (in flight, then queued) are always exactly the
\* accepted ones not yet passed to the sink, in acceptance order
C6_QueueFullRejected ==
    /\ [][\A p \in Producers :
            (ppc[p] = "enqueue" /\ ppc'[p] # "enqueue") =>
                IF Len(queue) >= QueueSize
                  THEN /\ pret'[p] = <<0, ErrQueueFull>>
                       /\ queue' = queue
                       /\ accepted' = accepted
                  ELSE /\ pret'[p][2] = Nil
                       /\ queue' = Append(queue, pbuf[p])
                       /\ accepted' = Append(accepted, bufBytes[pbuf[p]])]_vars
    /\ [](\A p \in Producers : ppc[p] = "enqueue" => ENABLED WriteEnqueue(p))
    /\ [](accepted = sink \o Pending)

\* a Write was rejected with ErrQueueFull, and a Write accepted after that
\* (one more than were accepted at the rejection) has reached the sink
C6_Witness ==
    \E p \in Producers :
        /\ pret[p] = <<0, ErrQueueFull>>
        /\ pacc[p] >= 1
        /\ Len(sink) > pacc[p]

\* C7: time and again every Close call made so far has returned, with
\* writer() exited
C7_CloseTerminates ==
    []<>(closeSnap # <<>> => (Len(closeRet) = Len(closeSnap) /\ wpc = "done"))

\* Close was called on an open writer with buffers waiting, and has returned
C7_Witness ==
    /\ closeRet # <<>>
    /\ Len(sink) >= 2
    /\ closeSnap[1] >= 2

\* C8: the first Close returns nil and the second returns ErrClosed
C8_SecondCloseErrClosed ==
    /\ Len(closeRet) >= 1 => closeRet[1] = Nil
    /\ Len(closeRet) >= 2 => closeRet[2] = ErrClosed

\* C9: when writer() has exited, the sink's Close has been called exactly once
C9_SinkClosedOnce ==
    wpc = "done" => sinkCloseCalls = 1

\* ---- what the history of the bus says ----
\* number of times the callback of handler h was called with args
timesInvoked(h, args) ==
    Cardinality({k \in 1..Len(invoked[h]) : invoked[h][k] = args})

\* the finished Publish calls that returned nil
publishedOk == {e \in published : e.ret = Nil}

\* C10: fan-out. For a Publish(topic, args) that returns nil while N handlers
\* are registered under topic, each of those N handlers is eventually invoked
\* with args, and never more than once (callbacks return).
C10_FanOutExactlyOnce ==
    /\ [](\A e \in publishedOk : \A i \in 1..Len(e.hs) :
            timesInvoked(e.hs[i], e.args) <= 1)
    /\ []<>(\A e \in publishedOk : \A i \in 1..Len(e.hs) :
            timesInvoked(e.hs[i], e.args) = 1)

\* C11: a Publish whose topic has no registered handler when it looks the
\* topic up returns ErrNoHandlerFound, puts nothing on any handler queue and
\* leaves the registry as it is; a topic in the registry always has a handler.
C11_PublishNoHandler ==
    /\ [][\A p \in Publishers :
            (bpc[p] = "rlock" /\ bpc'[p] # "rlock"
                /\ bcall[p].topic \notin DOMAIN handlers)
            => /\ bpc'[p] = "idle"
               /\ published' = published \cup
                     {[args |-> bcall[p].args, topic |-> bcall[p].topic,
                       hs |-> <<>>, ret |-> ErrNoHandlerFound,
                       barred |-> bcall[p].barred]}
               /\ hqueue' = hqueue
               /\ hclosed' = hclosed
               /\ handlers' = handlers]_vars
    /\ [](\A t \in DOMAIN handlers : handlers[t] # <<>>)
    /\ [](\A e \in published : e.ret = ErrNoHandlerFound => e.hs = <<>>)

\* a Publish returned ErrNoHandlerFound while another topic has a handler
\* with a queued argument list
C11_Witness ==
    \E e \in published :
        /\ e.ret = ErrNoHandlerFound
        /\ \E t \in DOMAIN handlers : t # e.topic /\
              \E i \in 1..Len(handlers[t]) : hqueue[handlers[t][i]] # <<>>

\* C12: Unsubscribe with a function value and Close, on a topic that is absent
\* from the registry, return ErrTopicNotFound; no handler list changes, no
\* queue changes and nothing is closed.
C12_AbsentTopicNotFound ==
    [][(mpc = "lock" /\ mpc' = "idle"
          /\ mcall.op \in {"Unsubscribe", "Close"}
          /\ mcall.topic \notin DOMAIN handlers)
       => /\ mret' = [op |-> mcall.op, err |-> ErrTopicNotFound]
          /\ handlers' = handlers
          /\ hqueue' = hqueue
          /\ hclosed' = hclosed
          /\ hpc' = hpc
          /\ ~crashed']_vars

\* Unsubscribe returned ErrTopicNotFound while another topic has an open
\* handler with a queued argument list
C12_Witness ==
    /\ mret = [op |-> "Unsubscribe", err |-> ErrTopicNotFound]
    /\ \E t \in DOMAIN handlers : \E i \in 1..Len(handlers[t]) :
          hqueue[handlers[t][i]] # <<>> /\ ~hclosed[handlers[t][i]]

\* C13: once Unsubscribe(topic, h) has returned nil, a Publish(topic, args)
\* that starts afterwards puts args on the queue of no handler that
\* Unsubscribe had to remove (so h is not invoked with args), and every handler
\* registered under topic at that Publish is invoked with args exactly once.
C13_UnsubscribedNotInvoked ==
    /\ [][\A p \in Publishers :
            (bpc[p] = "send" /\ bcall'[p] # bcall[p])
            => LET h == handlers[bcall[p].topic][bcall[p].idx] IN
               hqueue'[h] # hqueue[h] => <<bcall[p].topic, h>> \notin bcall[p].barred]_vars
    /\ [](\A e \in publishedOk : \A i \in 1..Len(e.hs) :
            (\E x \in e.barred : x[1] = e.topic)
            => timesInvoked(e.hs[i], e.args) <= 1)
    /\ []<>(\A e \in publishedOk : \A i \in 1..Len(e.hs) :
            (\E x \in e.barred : x[1] = e.topic)
            => timesInvoked(e.hs[i], e.args) = 1)

\* C14: Unsubscribe(topic, h) on a topic of the registry, whatever its handler
\* list: returns nil; every handler of the list whose callback is h has its
\* queue closed and is removed; the other handlers stay, in their order, with
\* their queues as they were; the topic stays iff a handler stays; other
\* topics are untouched.
C14_UnsubscribeRemovesAll ==
    [][(mpc = "lock" /\ mpc' = "idle" /\ mcall.op = "Unsubscribe"
          /\ mcall.topic \in DOMAIN handlers)
       => LET hs == handlers[mcall.topic]
              isOther(h) == callback[h] # mcall.fn
              others == SelectSeq(hs, isOther)
          IN /\ mret' = [op |-> "Unsubscribe", err |-> Nil]
             /\ ~crashed'
             /\ \A h \in HandlerIds :
                   hclosed'[h] = (hclosed[h] \/ (h \in Range(hs) /\ ~isOther(h)))
             /\ (mcall.topic \in DOMAIN handlers') = (others # <<>>)
             /\ others # <<>> => handlers'[mcall.topic] = others
             /\ \A t \in DOMAIN handlers \ {mcall.topic} :
                   t \in DOMAIN handlers' /\ handlers'[t] = handlers[t]]_vars

\* C15: Close(topic) on a topic of the registry returns nil, closes the queue
\* of every handler of the topic (none was closed before), removes the topic
\* and leaves the other topics as they are; afterwards the topic comes back
\* only through Subscribe, and until then Publish to it returns
\* ErrNoHandlerFound.
C15_CloseRemovesTopic ==
    /\ [][(mpc = "lock" /\ mpc' = "idle" /\ mcall.op = "Close"
             /\ mcall.topic \in DOMAIN handlers)
          => LET hs == handlers[mcall.topic] IN
             /\ mret' = [op |-> "Close", err |-> Nil]
             /\ ~crashed'
             /\ \A h \in Range(hs) : ~hclosed[h]
             /\ \A h \in HandlerIds : hclosed'[h] = (hclosed[h] \/ h \in Range(hs))
             /\ handlers' = withoutTopic(mcall.topic)]_vars
    /\ [][\A t \in Topics :
            (t \notin DOMAIN handlers /\ t \in DOMAIN handlers')
            => (mcall.op = "Subscribe" /\ mcall.topic = t /\ mret'.op = "Subscribe")]_vars
    /\ [][\A p \in Publishers :
            (bpc[p] = "rlock" /\ bpc'[p] # "rlock"
               /\ bcall[p].topic \notin DOMAIN handlers)
            => \E e \in published' \ published :
                  e.args = bcall[p].args /\ e.ret = ErrNoHandlerFound]_vars

\* C16: Subscribe and Unsubscribe called with a value that is not a function
\* return an error (they do not panic) and change nothing: no handler is made,
\* added or removed, no queue is made or closed, no consumer goroutine starts.
C16_InvalidHandlerRejected ==
    [][(mpc = "idle" /\ mpc' = "idle" /\ (mret' # mret \/ nRem' # nRem))
       => /\ mret'.op \in {"Subscribe", "Unsubscribe"}
          /\ mret'.err = ErrNotFunc
          /\ ~crashed'
          /\ <<handlers, callback, hqueue, hclosed, hpc, nextH>>' =
             <<handlers, callback, hqueue, hclosed, hpc, nextH>>]_vars

\* the topic has handlers and each of their queues is open and has room
hasRoom(topic) ==
    /\ topic \in DOMAIN handlers
    /\ \A h \in Range(handlers[topic]) :
          ~hclosed[h] /\ Len(hqueue[h]) < HandlerQueueSize

\* C17: isolation between topics. While a Publish is blocked on a full
\* handler queue of topic A, a Publish to another topic B whose handler queues
\* have room is not held up: its next step (taking the read lock, or sending)
\* can be taken, whatever Subscribe, Unsubscribe or Close calls are running.
C17_TopicsIsolated ==
    \A p, q \in Publishers :
        (/\ p # q
         /\ blocked(q)
         /\ bpc[p] \in {"rlock", "send"}
         /\ bcall[p].topic # bcall[q].topic
         /\ hasRoom(bcall[p].topic)
         /\ ~crashed)
        => ENABLED (PublishRLock(p) \/ PublishSend(p))

C19_PublishNeverBlocks ==
    /\ [](\A p \in Publishers : epc[p] = "send" => ENABLED EventPublishSend(p))
    /\ [][\A p \in Publishers :
            (epc[p] = "send" /\ ecall'[p] # ecall[p])
            => LET sb == subscribers[ecall[p].topic][ecall[p].idx]
                   dataEvent == [Data |-> ecall[p].data, Topic |-> ecall[p].topic]
               IN /\ echan'[sb.ch] =
                        IF Len(echan[sb.ch]) < EventChanSize
                        THEN Append(echan[sb.ch], dataEvent)
                        ELSE echan[sb.ch]
                  /\ \A c \in Channels \ {sb.ch} : echan'[c] = echan[c]
                  /\ subscribers' = subscribers]_vars
    /\ [](\A e \in epublished :
            e.ret # ErrNoHandlerFound
            => /\ Len(e.sent) = Len(e.sbs)
               /\ e.ret = IF \E i \in 1..Len(e.sent) : ~e.sent[i]
                          THEN ErrEventQueueFull(e.topic) ELSE Nil)

\* a Publish found the channel of one subscriber full and returned the
\* queue-full error, and a subscriber after it holds the event in its channel
C19_Witness ==
    \E e \in epublished :
        /\ e.ret = ErrEventQueueFull(e.topic)
        /\ \E i, j \in 1..Len(e.sbs) :
              /\ i < j
              /\ ~e.sent[i]
              /\ e.sent[j]
              /\ [Data |-> e.data, Topic |-> e.topic] \in Range(echan[e.sbs[j].ch])

\* C20: the Event Bus Publish returns ErrNoHandlerFound whenever the topic
\* has no subscribers when it is called: the topic was never subscribed to,
\* or every subscriber of it has been removed by Unsubscribe
C20_NoSubscribersNoHandler ==
    /\ [][nEPub' = nEPub + 1
          => \A e \in epublished' \ epublished :
                (e.topic \notin DOMAIN subscribers \/ subscribers[e.topic] = <<>>)
                => e.ret = ErrNoHandlerFound]_vars
    /\ [](\A e \in epublished : e.sbs = <<>> => e.ret = ErrNoHandlerFound)

\* C21: any two subscribers registered under the same topic at the same time
\* have different subscription IDs
C21_SubscriptionIDsUnique ==
    \A t \in DOMAIN subscribers :
        \A i, j \in 1..Len(subscribers[t]) :
            i # j => subscribers[t][i].subscriptionID # subscribers[t][j].subscriptionID

\* C22: Unsubscribe(topic, id), for an id a subscription still registered
\* under the topic was given by Subscribe, removes exactly that
\* subscription: the topic is left with the list without it, in which every
\* other subscription stays, and no other topic and no channel changes; so
\* a later Publish, which sends to the subscribers of the list, sends
\* nothing for the removed subscription and keeps sending to the others
C22_UnsubscribeRemovesExactlyOne ==
    [][\A topic \in Topics, id \in SubscriptionIDs :
          (EventUnsubscribe(topic, id) /\ topic \in DOMAIN subscribers)
          => \A i \in 1..Len(subscribers[topic]) :
                subscribers[topic][i].subscriptionID = id
                => /\ subscribers' =
                        withSubscribers(topic,
                                        removeSubscriber(subscribers[topic], i))
                   /\ echan' = echan]_vars

\* C23: Unsubscribe with a topic that is not in the map, or with an ID that
\* no subscriber of the topic holds, changes nothing: the subscriber lists
\* of all topics and the contents of all channels stay as they are
C23_UnsubscribeAbsentNoOp ==
    [][(/\ nEUnsub' = nEUnsub + 1
        /\ \E topic \in Topics, id \in SubscriptionIDs :
              /\ EventUnsubscribe(topic, id)
              /\ \/ topic \notin DOMAIN subscribers
                 \/ \A i \in 1..Len(subscribers[topic]) :
                       subscribers[topic][i].subscriptionID # id)
       => /\ subscribers' = subscribers
          /\ echan' = echan
          /\ epublished' = epublished]_vars

\* two Unsubscribe calls have been made and the subscribers registered
\* before them are all still registered, one of them with an event in its
\* channel
C23_Witness ==
    /\ nEUnsub = MaxEventUnsubscribes
    /\ \E t \in DOMAIN subscribers :
          /\ Len(subscribers[t]) = MaxEventSubscribes
          /\ \E i \in 1..Len(subscribers[t]) : echan[subscribers[t][i].ch] # <<>>

\* the lifecycle of the writer: Open until onClose sets the closed flag,
\* Closing while onClose drains the queue, Closed once writer() has returned
lifecycle ==
    IF ~isClosed THEN "Open"
    ELSE IF wpc # "done" THEN "Closing"
    ELSE "Closed"

\* C24: the lifecycle is monotone.  The writer moves only Open -> Closing ->
\* Closed; the closed flag, once set, is never cleared; writer(), once it
\* has returned, is never started again; and no Write is accepted (returns
\* (len, nil) with its buffer enqueued) in the Closed state
C24_LifecycleMonotone ==
    /\ [][\/ lifecycle' = lifecycle
          \/ <<lifecycle, lifecycle'>> \in {<<"Open", "Closing">>,
                                           <<"Closing", "Closed">>}]_vars
    /\ [][isClosed => isClosed']_vars
    /\ [][wpc = "done" => (wpc' = "done" /\ wg' = wg)]_vars
    /\ [][lifecycle = "Closed" => (accepted' = accepted /\ queue' = queue)]_vars

\* C25: GzipFileWriter.Close first stops the async writer, only then flushes
\* and closes the gzip writer, and closes the file last; and when Close
\* returns nil, no write of the sink having failed, the file holds the data
\* of every Write accepted so far, in the order of acceptance
C25_GzipCloseOrder ==
    /\ [][(gzFlushed' # gzFlushed \/ gzClosed' # gzClosed) => wpc = "done"]_vars
    /\ [][gzClosed' # gzClosed => gzFlushed = Len(sinkWritten)]_vars
    /\ [][fileClosed' # fileClosed
          => (wpc = "done" /\ (gzipIt => gzClosed))]_vars
    /\ [][(/\ Len(gzCloseRet') > Len(gzCloseRet)
           /\ gzCloseRet'[Len(gzCloseRet')] = Nil
           /\ sinkErrs = <<>>)
          => fileData' = accepted']_vars

\* C26: Match(topic) returns true iff the matcher has no filters or one of
\* its filters matches the topic, whatever AddFilter, RemoveFilter and
\* Match calls came before
C26_MatchIsUncached ==
    [][(tmCalls' # tmCalls /\ tmRet'.op = "Match")
       => tmRet'.matched =
             (\/ tmFilters = <<>>
              \/ \E i \in 1..Len(tmFilters) : Matches(tmFilters[i], tmRet'.topic))]_vars

\* C27: InitTLSConfig initialises at most once.  The function passed to
\* once.Do runs at most once, whatever the number of sequential and
\* concurrent calls; the shared configuration, once set, is never replaced;
\* and every call that returns after it was set returns that configuration
C27_InitOnce ==
    /\ [](initRuns <= 1)
    /\ [][sharedTLS # NilPtr => sharedTLS' = sharedTLS]_vars
    /\ [][\A c \in TLSCallers :
            (tpc[c] = "return" /\ tpc'[c] = "idle")
            => \E r \in tlsRet' \ tlsRet :
                  r.n = tcall[c].n /\ r.config = sharedTLS]_vars
    /\ [](\A r1, r2 \in tlsRet :
            (r1.config # NilPtr /\ r2.config # NilPtr) => r1.config = r2.config)

\* two calls with different CA paths have returned the same configuration,
\* the one made from the arguments of the call that ran the initialisation
C27_Witness ==
    /\ initRuns = 1
    /\ \A c \in TLSCallers : tpc[c] = "idle"
    /\ \E r1, r2 \in tlsRet :
          /\ r1.caPath # r2.caPath
          /\ r1.config # NilPtr
          /\ r2.config = r1.config
          /\ r1.config = tlsConfig(<<"pair", r1.certPath, r1.keyPath>>,
                                   <<"pool", r1.caPath>>)

\* the bytes of all files of the directory
dirTotal(files) ==
    totalSize(files, CHOOSE s \in sortedByModTime(files) : TRUE,
              Cardinality(DOMAIN files))

\* C28: RemoveElderFiles removes the elder files.  When the files exceed
\* MaxSizeBytes in total, every file it removes has a modification time no
\* later than that of every file it keeps; and when they do not, it removes
\* nothing
C28_RemovesElderFiles ==
    [][dsCalls' # dsCalls
       => LET removed == (DOMAIN dirFiles) \ (DOMAIN dirFiles')
              kept == DOMAIN dirFiles'
          IN IF dirTotal(dirFiles) > maxSizeBytes
             THEN \A r \in removed, k \in kept :
                     dirFiles[r].modTime <= dirFiles[k].modTime
             ELSE removed = {}]_vars

\* the strings an uncached evaluation of the pairs can give for s
replaced(s, pairs) ==
    {replaceLoop(s, pairs, order, Len(order)) : order \in rangeOrders(pairs)}

\* C29: the results of a StringReplacer do not depend on the calls made
\* before.  Replace(s) returns s with every configured substring replaced
\* by its replacement, and ReverseReplace(s) returns s with every
\* replacement replaced by its original
C29_ResultsIgnoreHistory ==
    /\ srCall[1] = "Replace" => srRet \in replaced(srCall[2], ReplacePairs)
    /\ srCall[1] = "ReverseReplace"
          => srRet \in replaced(srCall[2], ReverseReplacePairs)

\* C30: a LoopingIntRangeIterator made with Start <= End.  Every value Next
\* returns lies in Start..End; the first Next after construction or after
\* Reset returns Start; every other Next returns the value before plus one,
\* and Start after End
C30_LoopsWithinRange ==
    [][itCall' = "Next"
       => /\ Start <= itRet' /\ itRet' <= End
          /\ itCall \in {"New", "Reset"} => itRet' = Start
          /\ itCall = "Next"
                => itRet' = IF itRet = End THEN Start ELSE itRet + 1]_vars

\* C31: when the sink returns an error while the error slot is full, the
\* consumer does not block and goes on consuming the queue, and the slot
\* then holds the most recent errors: the oldest pending error is the one
\* that is lost, the new one is kept
C31_NewestErrorRetained ==
    [][(Len(sinkErrs') > Len(sinkErrs) /\ Len(errChan) = QueueSize)
       => /\ wpc' \in {"select", "flushQueue"}
          /\ errChan' = Append(Tail(errChan), sinkErrs'[Len(sinkErrs')])]_vars

\* the places that hold buffer b: the pool, the queue (once per position),
\* the write in flight in the consumer, and a Write call between its Get
\* and its send
holders(b) ==
    (IF b \in pool THEN 1 ELSE 0)
    + Cardinality({i \in DOMAIN queue : queue[i] = b})
    + (IF inflight = b THEN 1 ELSE 0)
    + Cardinality({p \in Producers : pbuf[p] = b})

\* C32: the discipline of the buffer pool.  A buffer that Write borrows is
\* reset before the data is copied into it, and goes back to the pool
\* exactly once on every path, the rejection with ErrQueueFull included: at
\* any time every buffer made so far is held by exactly one of the pool, the
\* queue and a write in progress, and a Write that has returned holds none
C32_BufferOwnedOnce ==
    /\ \A b \in 1..nextBuf : holders(b) = 1
    /\ \A p \in Producers :
          /\ ppc[p] = "enqueue" => bufBytes[pbuf[p]] = Data(p, pcount[p])
          /\ ppc[p] = "idle" => pbuf[p] = 0

\* error e has just been returned by a Write call, or has been returned by
\* a Close call
returnedToCaller(e) ==
    \/ \E p \in Producers : ppc[p] = "idle" /\ pret[p] = <<0, e>>
    \/ e \in Range(closeRet)

\* C33: a sink error raised while the consumer drains the queue at shutdown
\* is reported like any other sink error and is not swallowed.  When the
\* slot has room the error is pushed onto it, and it is later returned to a
\* caller by a Write or a Close call
C33_DrainErrorReported ==
    /\ [][(wpc = "flushWrite" /\ Len(sinkErrs') > Len(sinkErrs)
             /\ Len(errChan) < QueueSize)
          => errChan' = Append(errChan, SinkErr(bufBytes[inflight]))]_vars
    /\ \A p \in Producers, k \in 1..MaxWrites :
          [](( /\ wpc = "flushWrite"
               /\ bufBytes[inflight] = Data(p, k)
               /\ Len(errChan) < QueueSize)
             => <>( /\ Data(p, k) \in Range(sink)
                    /\ SinkErr(Data(p, k)) \in Range(sinkErrs)
                          => returnedToCaller(SinkErr(Data(p, k)))))

\* C34: once Unsubscribe or Close has closed the queue of a handler, the
\* consumer goroutine of the handler still calls the callback once, in
\* order, with every argument list that was in the queue when it was closed,
\* and then ends; nothing is put on the queue any more, so the callback is
\* not called for a Publish that starts after the removal
C34_ClosedQueueDrained ==
    /\ [][\A h \in HandlerIds :
            /\ (~hclosed[h] /\ hclosed'[h])
                  => hqueue'[h] = hqueue[h] /\ invoked'[h] = invoked[h]
            /\ hclosed[h]
                  => /\ invoked'[h] \o hqueue'[h] = invoked[h] \o hqueue[h]
                     /\ Len(invoked'[h]) \in {Len(invoked[h]), Len(invoked[h]) + 1}
                     /\ hpc[h] = "exit" => hpc'[h] = "exit"]_vars
    /\ [](\A h \in HandlerIds : hpc[h] = "exit" => hqueue[h] = <<>>)
    /\ \A h \in HandlerIds : [](hclosed[h] => <>(hpc[h] = "exit"))

\* C35: no accepted write is lost during shutdown.  Once writer() has
\* exited, no buffer is left in the queue and the data of every Write that
\* returned (len(data), nil) has been passed to the sink, whether or not
\* the Write overlapped Close or the cancellation of the parent context
C35_NoAcceptedWriteLost ==
    wpc = "done"
       => /\ queue = <<>>
          /\ \A i \in 1..Len(accepted) : accepted[i] \in Range(sink)

\* the place of error e among the errors the sink has returned
errPos(e) == CHOOSE n \in 1..Len(sinkErrs) : sinkErrs[n] = e

registeredOnce(hs) ==
    \A i, j \in 1..Len(hs) : i # j => callback[hs[i]] # callback[hs[j]]

\* C37: whatever the interleaving of Publish with Subscribe, Unsubscribe and
\* Close, Publish never sends on a handler queue that has been closed, and
\* no queue is closed twice while its callback is registered once.  A queue
\* is closed only by the holder of the write lock, in the critical section
\* that takes its handler out of the registry, so no handler of the registry
\* has a closed queue
C37_NoSendOnClosedQueue ==
    /\ [][\A p \in Publishers :
            (bpc[p] = "send" /\ bcall'[p] # bcall[p])
            => ~hclosed[handlers[bcall[p].topic][bcall[p].idx]]]_vars
    /\ [][\A h \in HandlerIds :
            (~hclosed[h] /\ hclosed'[h])
            => /\ mpc = "lock" /\ mpc' = "idle" /\ rlocked = {}
               /\ \A t \in DOMAIN handlers' : h \notin Range(handlers'[t])]_vars
    /\ [](\A t \in DOMAIN handlers : \A i \in 1..Len(handlers[t]) :
            ~hclosed[handlers[t][i]])
    /\ [][(mpc = "lock" /\ mpc' = "idle" /\ mcall.topic \in DOMAIN handlers
             /\ registeredOnce(handlers[mcall.topic]))
          => mret'.err # Panic("close of closed channel")]_vars

\* C38: progress of the Message Bus.  With callbacks that return and do not
\* call into the bus, every Publish, Subscribe, Unsubscribe and Close call
\* returns in the end: none ends in a panic, and none stays inside the bus
\* for ever; and a Publish that waits on a full handler queue can go on as
\* soon as the queue has room again
C38_BusProgress ==
    /\ [](mret.err[1] # "panic")
    /\ [](\A e \in published : e.ret[1] # "panic")
    /\ [](\A p \in Publishers :
            (/\ bpc[p] = "send"
             /\ Len(hqueue[handlers[bcall[p].topic][bcall[p].idx]])
                   < HandlerQueueSize)
            => ENABLED PublishSend(p))
    /\ \A p \in Publishers : [](bpc[p] # "idle" => <>(bpc[p] = "idle"))
    /\ [](mpc # "idle" => <>(mpc = "idle"))

\* C39: InitTLSConfig never returns a nil configuration together with a nil
\* error.  Every call that returns a nil configuration returns a non-nil
\* error, be it the call that ran the initialisation or a later one
C39_FailureReported ==
    \A r \in tlsRet : r.config = NilPtr => r.err # Nil

====
